---- MODULE Spec2Model ----
(***************************************************************************)
(* LTI 1.3 login/launch core of GlobalExpiditionJournal:                   *)
(*   internal/lti/state.go    StateStore (Store, Get, Peek, cleanup)       *)
(*   internal/lti/handler.go  Handler.LoginInitiation, Handler.Launch      *)
(*   internal/lti/jwt.go      JWTValidator.ValidateToken                   *)
(*   internal/lti/session.go  SessionManager.CreateToken, ValidateToken    *)
(*   internal/middleware/auth.go  AuthMiddleware, extractToken             *)
(*   internal/lti/keys.go     KeyManager.GetKeyID, GetJWKS                 *)
(*   internal/lti/platform.go PlatformRepository (Create, Update, Upsert)  *)
(*   internal/api/router.go, demo_handler.go  NewRouterWithConfig          *)
(* Time is counted in minutes and observed on a grid of TickMinutes, so    *)
(* that the cleanup ticker (one minute) has fired between any two          *)
(* observations.  Request workers are goroutines; every      *)
(* StateStore method is split at its lock acquisition so that the mutex    *)
(* is what makes the method atomic.                                        *)
(***************************************************************************)
EXTENDS Integers, Sequences, FiniteSets, TLC

\* ---------------------------------------------------------------- bounds
NumWorkers == 2
MaxStores == 2
MaxRandom == 4
\* the clock is observed every TickMinutes minutes, up to MaxTime minutes
TickMinutes == 5
MaxTime == 15
\* the session clock is read in ticks of 1/TicksPerSecond s, up to MaxWall ticks
TicksPerSecond == 2
MaxWall == 6
MaxTokens == 1

\* ------------------------------------------------------ program constants
TTLMinutes == 10
SessionMaxAgeSeconds == 86400
SweepPeriodMinutes == 1

Workers == 1..NumWorkers

\* crypto/rand draws: the i-th 32-byte draw of the process, base64url encoded
RandomToken(i) == "r" \o ToString(i)

\* a nil *StateData
NilData == [nil |-> TRUE]

VARIABLES
    now,        \* time.Now(), in minutes
    states,     \* StateStore.states : state string -> StateData
    muWriter,   \* StateStore.mu : the holder of the write lock (0 = none)
    muReaders,  \* StateStore.mu : the holders of the read lock
    sweepPc,    \* position of the cleanup goroutine
    ticked,     \* cleanup's ticker.C (capacity 1) holds a tick
    pc,         \* position of each request goroutine
    ret,        \* where a StateStore method returns to
    key,        \* the state argument of the StateStore method in progress
    arg,        \* the data argument of Store
    res,        \* (data, ok) of the last Get or Peek
    gen,        \* history: the number of Stores under each state so far
    lastStored, \* history: the entry the last Store under each state wrote
    hits,       \* history: successful Gets of each state since its last Store
    got,        \* history: how many Stores of key[w] preceded the last Get of w
    platforms,  \* table lti_platforms, in primary-key order
    users,      \* table users, in primary-key order
    jwksCache,  \* JWTValidator.jwksCache : the JWKS URLs already fetched
    randCtr,    \* the number of crypto/rand draws made so far
    req,        \* the HTTP request each goroutine is serving
    loc,        \* the local variables of the handler each goroutine runs
    resp,       \* the HTTP response written so far
    minted,     \* history: the session cookies set, with the state that paid for each
    sessions,   \* history: subject, issuer and local user id of each session set
    wall,       \* time.Now() as the SessionManager reads it, in ticks
    issued,     \* history: the session tokens CreateToken has returned
    verdict,    \* the last call of SessionManager.ValidateToken and its result
    api,        \* the last request served under AuthMiddleware, and its answer
    shown,      \* history: the distinct answers AuthMiddleware gave when it aborted
    km,         \* the KeyManager of the process: privateKey and keyID
    kmReaders,  \* KeyManager.mu : the holders of the read lock
    kmOut,      \* what the KeyManager method each goroutine runs has returned
    published,  \* history: the key ids and JWKS documents callers have been given
    started,    \* history: the platform login initiation resolved for each state, and the registry then
    dbOut,      \* the last PlatformRepository call: its argument and its error
    keyfunc     \* the getKeyfunc call each goroutine is in, and its map access

storeVars == <<now, states, muWriter, muReaders, sweepPc, ticked,
               key, arg, res, gen, lastStored, hits, got>>
handlerVars == <<platforms, users, jwksCache, randCtr, req, loc, resp, minted,
                 sessions, started>>
sessionVars == <<wall, issued, verdict, api, shown>>
keyVars == <<km, kmReaders, kmOut, published>>
sideVars == <<dbOut, keyfunc>>
vars == <<storeVars, pc, ret, handlerVars, sessionVars, sideVars, keyVars, sideVars, sideVars>>

\* ------------------------------------------------------------- sync.RWMutex
MuTryLock    == muWriter = 0 /\ muReaders = {}
MuTryRLock   == muWriter = 0

\* ------------------------------------------------------ StateStore, as code
\* state.go:56-57  data.CreatedAt = time.Now(); s.states[state] = data
StoreWrite(m, s, d, t) ==
    [k \in DOMAIN m \cup {s} |->
        IF k = s THEN [d EXCEPT !.CreatedAt = t] ELSE m[k]]

\* state.go:64  data, ok := s.states[state]
MapLookup(m, s) ==
    IF s \in DOMAIN m THEN [data |-> m[s], ok |-> TRUE]
                      ELSE [data |-> NilData, ok |-> FALSE]

\* a Get that forgets the delete
GetKeep(m, s, ok) == m

\* state.go:65-67  if ok { delete(s.states, state) }
GetDelete(m, s, ok) ==
    IF ok THEN [k \in DOMAIN m \ {s} |-> m[k]] ELSE m

\* a sweep that takes the ten minutes for ten hours
ExpiredAfterHours(d, t) == t - d.CreatedAt > TTLMinutes * 60

\* state.go:86  now.Sub(data.CreatedAt) > 10*time.Minute
Expired(d, t) == t - d.CreatedAt > TTLMinutes

\* state.go:85-89  the sweep of one tick
CleanupScan(m, t) ==
    [k \in {x \in DOMAIN m : ~Expired(m[x], t)} |-> m[k]]

\* ------------------------------------------------- history bookkeeping
AllKeys == {RandomToken(i) : i \in 1..MaxRandom} \cup {"bogus"}

RecordStore(s, d, t) ==
    /\ gen' = [gen EXCEPT ![s] = @ + 1]
    /\ lastStored' = [lastStored EXCEPT ![s] = [d EXCEPT !.CreatedAt = t]]
    /\ hits' = [hits EXCEPT ![s] = 0]

RecordGet(w, s, ok) ==
    /\ hits' = [hits EXCEPT ![s] = IF ok THEN @ + 1 ELSE @]
    /\ got' = [got EXCEPT ![w] = gen[s]]

\* --------------------------------------------- StateStore methods, stepwise
MuRelease(w) ==
    /\ muWriter' = IF muWriter = w THEN 0 ELSE muWriter
    /\ muReaders' = muReaders \ {w}

\* state.go:54  s.mu.Lock()
StoreLock(w) ==
    /\ pc[w] = "store_lock"
    /\ MuTryLock
    /\ muWriter' = w
    /\ pc' = [pc EXCEPT ![w] = "store_body"]
    /\ UNCHANGED <<handlerVars, sessionVars, sideVars, keyVars, sideVars, now, states, muReaders, sweepPc, ticked, ret, key, arg, res,
                   gen, lastStored, hits, got>>

\* state.go:55-58
StoreBody(w) ==
    /\ pc[w] = "store_body"
    /\ states' = StoreWrite(states, key[w], arg[w], now)
    /\ MuRelease(w)
    /\ RecordStore(key[w], arg[w], now)
    /\ arg' = [arg EXCEPT ![w] = NilData]
    /\ pc' = [pc EXCEPT ![w] = ret[w]]
    /\ UNCHANGED <<handlerVars, sessionVars, sideVars, keyVars, sideVars, now, sweepPc, ticked, ret, key, res, got>>

\* a Get that takes only the read lock
GetRLock(w) ==
    /\ pc[w] = "get_lock"
    /\ MuTryRLock
    /\ muReaders' = muReaders \cup {w}
    /\ pc' = [pc EXCEPT ![w] = "get_read"]
    /\ UNCHANGED <<handlerVars, sessionVars, sideVars, keyVars, sideVars, now, states, muWriter, sweepPc, ticked, ret, key, arg, res,
                   gen, lastStored, hits, got>>

\* state.go:62  s.mu.Lock()
GetLock(w) ==
    /\ pc[w] = "get_lock"
    /\ MuTryLock
    /\ muWriter' = w
    /\ pc' = [pc EXCEPT ![w] = "get_read"]
    /\ UNCHANGED <<handlerVars, sessionVars, sideVars, keyVars, sideVars, now, states, muReaders, sweepPc, ticked, ret, key, arg, res,
                   gen, lastStored, hits, got>>

\* state.go:64
GetRead(w) ==
    /\ pc[w] = "get_read"
    /\ res' = [res EXCEPT ![w] = MapLookup(states, key[w])]
    /\ pc' = [pc EXCEPT ![w] = "get_delete"]
    /\ UNCHANGED <<handlerVars, sessionVars, sideVars, keyVars, sideVars, now, states, muWriter, muReaders, sweepPc, ticked, ret, key,
                   arg, gen, lastStored, hits, got>>

\* state.go:65-68 and the deferred Unlock of line 63
GetRemove(w) ==
    /\ pc[w] = "get_delete"
    /\ states' = GetDelete(states, key[w], res[w].ok)
    /\ MuRelease(w)
    /\ RecordGet(w, key[w], res[w].ok)
    /\ pc' = [pc EXCEPT ![w] = ret[w]]
    /\ UNCHANGED <<handlerVars, sessionVars, sideVars, keyVars, sideVars, now, sweepPc, ticked, ret, key, arg, res, gen, lastStored>>

\* state.go:73  s.mu.RLock()
PeekLock(w) ==
    /\ pc[w] = "peek_lock"
    /\ MuTryRLock
    /\ muReaders' = muReaders \cup {w}
    /\ pc' = [pc EXCEPT ![w] = "peek_read"]
    /\ UNCHANGED <<handlerVars, sessionVars, sideVars, keyVars, sideVars, now, states, muWriter, sweepPc, ticked, ret, key, arg, res,
                   gen, lastStored, hits, got>>

\* a Peek that removes what it finds
PeekReadDelete(w) ==
    /\ pc[w] = "peek_read"
    /\ res' = [res EXCEPT ![w] = MapLookup(states, key[w])]
    /\ states' = GetDelete(states, key[w], key[w] \in DOMAIN states)
    /\ MuRelease(w)
    /\ got' = [got EXCEPT ![w] = 0]
    /\ pc' = [pc EXCEPT ![w] = ret[w]]
    /\ UNCHANGED <<handlerVars, sessionVars, keyVars, sideVars, now, sweepPc, ticked, ret, key, arg, gen, lastStored, hits>>

\* state.go:74-76
PeekRead(w) ==
    /\ pc[w] = "peek_read"
    /\ res' = [res EXCEPT ![w] = MapLookup(states, key[w])]
    /\ MuRelease(w)
    /\ got' = [got EXCEPT ![w] = 0]
    /\ pc' = [pc EXCEPT ![w] = ret[w]]
    /\ UNCHANGED <<handlerVars, sessionVars, sideVars, keyVars, sideVars, now, states, sweepPc, ticked, ret, key, arg, gen, lastStored, hits>>

\* ---------------------------------------------------- the cleanup goroutine
\* state.go:82-83  a tick is received from ticker.C, then s.mu.Lock()
CleanupLock ==
    /\ sweepPc = "wait"
    /\ ticked
    /\ MuTryLock
    /\ muWriter' = 0 - 1
    /\ ticked' = FALSE
    /\ sweepPc' = "scan"
    /\ UNCHANGED <<handlerVars, sessionVars, sideVars, keyVars, sideVars, now, states, muReaders, pc, ret, key, arg, res, gen, lastStored, hits, got>>

\* state.go:84-90
CleanupSweep ==
    /\ sweepPc = "scan"
    /\ states' = CleanupScan(states, now)
    /\ muWriter' = 0
    /\ sweepPc' = "wait"
    /\ UNCHANGED <<handlerVars, sessionVars, sideVars, keyVars, sideVars, now, muReaders, ticked, pc, ret, key, arg, res, gen, lastStored, hits, got>>

\* the passage of d minutes
Tick(d) ==
    /\ now + d <= MaxTime
    /\ now' = now + d
    /\ ticked' = (ticked \/ d >= SweepPeriodMinutes)
    /\ UNCHANGED <<handlerVars, sessionVars, sideVars, keyVars, sideVars, states, muWriter, muReaders, sweepPc, pc, ret, key,
                   arg, res, gen, lastStored, hits, got>>

StoreSteps ==
    \/ \E w \in Workers : StoreLock(w)
    \/ \E w \in Workers : StoreBody(w)
    \/ \E w \in Workers : GetLock(w)
    \/ \E w \in Workers : GetRead(w)
    \/ \E w \in Workers : GetRemove(w)
    \/ \E w \in Workers : PeekLock(w)
    \/ \E w \in Workers : PeekRead(w)

\* ------------------------------------------------- platform registry, as code
NilPlatform == [nil |-> TRUE]

\* gorm First: the live row of lowest primary key that matches
FirstRow(ix) ==
    IF ix = {} THEN 0 ELSE CHOOSE i \in ix : \A j \in ix : i <= j

\* a lookup that also returns soft-deleted rows
FindByIssuerUnscoped(tbl, issuer) ==
    LET i == FirstRow({j \in 1..Len(tbl) : tbl[j].Issuer = issuer})
    IN  IF i = 0 THEN [err |-> TRUE, platform |-> NilPlatform]
                 ELSE [err |-> FALSE, platform |-> tbl[i]]

\* PlatformRepository.FindByIssuer
FindByIssuer(tbl, issuer) ==
    LET i == FirstRow({j \in 1..Len(tbl) :
                          ~tbl[j].Deleted /\ tbl[j].Issuer = issuer})
    IN  IF i = 0 THEN [err |-> TRUE, platform |-> NilPlatform]
                 ELSE [err |-> FALSE, platform |-> tbl[i]]

\* PlatformRepository.FindByClientID
FindByClientID(tbl, clientID) ==
    LET i == FirstRow({j \in 1..Len(tbl) :
                          ~tbl[j].Deleted /\ tbl[j].ClientID = clientID})
    IN  IF i = 0 THEN [err |-> TRUE, platform |-> NilPlatform]
                 ELSE [err |-> FALSE, platform |-> tbl[i]]

\* ------------------------------------------------------ id_token validation
\* the keys each platform publishes at its JWKS endpoint
PublishedKeys(jwksURL) ==
    IF jwksURL = "https://canvas.example.com/.well-known/jwks" THEN {"key-canvas"}
    ELSE IF jwksURL = "https://moodle.example.com/jwks" THEN {"key-moodle"}
    ELSE {}

\* jwt.go:120-126  jwt.ParseWithClaims with WithIssuer and WithAudience: the
\* signature against the key set, then the registered claims (exp/nbf, aud, iss)
ParseWithClaims(tok, keys, issuer, audience) ==
    IF tok.signedBy \notin keys THEN "signature is invalid"
    ELSE IF ~tok.timeValid THEN "token is expired"
    ELSE IF audience \notin tok.aud THEN "token has invalid audience"
    ELSE IF tok.iss # issuer THEN "token has invalid issuer"
    ELSE ""

\* a validator that skips the nonce comparison
NonceIgnored(claims, expectedNonce) == FALSE

\* jwt.go:134  claims.Nonce != expectedNonce
NonceMismatch(claims, expectedNonce) == claims.nonce # expectedNonce

\* a validator that accepts every message type
AnyMessageType(claims) == FALSE

\* jwt.go:139
UnsupportedMessageType(claims) ==
    claims.messageType # "LtiResourceLinkRequest"
        /\ claims.messageType # "LtiDeepLinkingRequest"

\* jwt.go:119-143  ValidateToken once the key set is at hand: "" is a nil error
ValidateToken(tok, platform, expectedNonce, keys) ==
    LET perr == ParseWithClaims(tok, keys, platform.Issuer, platform.ClientID)
    IN  IF perr # "" THEN "failed to parse token: " \o perr
        ELSE IF NonceMismatch(tok, expectedNonce) THEN "nonce mismatch"
        ELSE IF UnsupportedMessageType(tok)
             THEN "unsupported message type: " \o tok.messageType
        ELSE ""

\* jwt.go:62-83  HasRole, IsInstructor
HasRole(claims, role) == \E i \in 1..Len(claims.roles) : claims.roles[i] = role
\* a check that knows the membership role only
IsInstructorMembership(claims) ==
    HasRole(claims, "http://purl.imsglobal.org/vocab/lis/v2/membership#Instructor")

IsInstructor(claims) ==
    \/ HasRole(claims, "http://purl.imsglobal.org/vocab/lis/v2/membership#Instructor")
    \/ HasRole(claims, "http://purl.imsglobal.org/vocab/lis/v2/institution/person#Instructor")

\* ----------------------------------------------------------- users, as code
\* a lookup with its two arguments bound to the wrong columns
FindUserSwapped(tbl, sub, issuer) ==
    FirstRow({j \in 1..Len(tbl) :
                 tbl[j].CanvasUserID = issuer /\ tbl[j].CanvasInstanceURL = sub})

\* handler.go:224-225  Where(canvas_user_id = ? AND canvas_instance_url = ?).First
FindUser(tbl, sub, issuer) ==
    FirstRow({j \in 1..Len(tbl) :
                 tbl[j].CanvasUserID = sub /\ tbl[j].CanvasInstanceURL = issuer})

\* handler.go:229-235  Create assigns the next primary key
CreateUser(tbl, claims, platform) ==
    Append(tbl, [ID |-> Len(tbl) + 1, CanvasUserID |-> claims.sub,
                 CanvasInstanceURL |-> platform.Issuer,
                 DisplayName |-> claims.name, Email |-> claims.email])

\* handler.go:246-254  the fields a launch refreshes
RefreshUser(u, claims) ==
    [u EXCEPT !.DisplayName = IF claims.name # "" /\ @ # claims.name
                              THEN claims.name ELSE @,
              !.Email = IF claims.email # "" /\ @ # claims.email
                        THEN claims.email ELSE @]

\* handler.go:255-257  Save writes the row back by primary key
SaveUser(tbl, u) == [i \in 1..Len(tbl) |-> IF tbl[i].ID = u.ID THEN u ELSE tbl[i]]

\* ------------------------------------------------------ redirects, as code
\* net/url Parse of the registered authorization endpoints: path and query
UrlParse(endpoint) ==
    IF endpoint = "https://moodle.example.com/auth?tenant=t1"
    THEN [err |-> FALSE, base |-> "https://moodle.example.com/auth",
          query |-> [tenant |-> "t1"]]
    ELSE IF endpoint = "https://canvas.example.com/api/lti/authorize"
    THEN [err |-> FALSE, base |-> endpoint, query |-> <<>>]
    ELSE [err |-> TRUE, base |-> "", query |-> <<>>]

\* url.Values.Set
QSet(q, k, v) == [x \in DOMAIN q \cup {k} |-> IF x = k THEN v ELSE q[x]]

\* handler.go:278-292
getLaunchURL(r) ==
    LET scheme0 == IF r.tls THEN "https" ELSE "http"
        scheme == IF r.fwdProto # "" THEN r.fwdProto ELSE scheme0
        host == IF r.fwdHost # "" THEN r.fwdHost ELSE r.host
    IN  scheme \o "://" \o host \o "/lti/launch"

\* a redirect whose nonce parameter is not the stored one
AuthQueryStaleNonce(q0, platform, launchURL, loginHint, state, nonce, ltiMessageHint) ==
    LET q1 == QSet(q0, "scope", "openid")
        q2 == QSet(q1, "response_type", "id_token")
        q3 == QSet(q2, "client_id", platform.ClientID)
        q4 == QSet(q3, "redirect_uri", launchURL)
        q5 == QSet(q4, "login_hint", loginHint)
        q6 == QSet(q5, "state", state)
        q7 == QSet(q6, "response_mode", "form_post")
        q8 == QSet(q7, "nonce", state)
    IN  QSet(q8, "prompt", "none")

\* handler.go:119-132
AuthQuery(q0, platform, launchURL, loginHint, state, nonce, ltiMessageHint) ==
    LET q1 == QSet(q0, "scope", "openid")
        q2 == QSet(q1, "response_type", "id_token")
        q3 == QSet(q2, "client_id", platform.ClientID)
        q4 == QSet(q3, "redirect_uri", launchURL)
        q5 == QSet(q4, "login_hint", loginHint)
        q6 == QSet(q5, "state", state)
        q7 == QSet(q6, "response_mode", "form_post")
        q8 == QSet(q7, "nonce", nonce)
        q9 == QSet(q8, "prompt", "none")
    IN  IF ltiMessageHint # "" THEN QSet(q9, "lti_message_hint", ltiMessageHint)
                               ELSE q9

\* ------------------------------------------------------------ initial state
\* the zero values of a goroutine that serves no request
NilUser == [nil |-> TRUE]
NoLocation == [nil |-> TRUE]
NoCookie == [nil |-> TRUE]
NoRequest == [kind |-> "none"]
NoLocals == [platform |-> NilPlatform, user |-> NilUser, state |-> "", nonce |-> ""]
NoResponse == [status |-> 0, error |-> "", location |-> NoLocation, cookie |-> NoCookie]
NoResult == [data |-> NilData, ok |-> FALSE]

\* no KeyManager constructed yet, and a goroutine that has called none of its methods
NilKeyManager == [nil |-> TRUE]
NoOutput == [nil |-> TRUE]

\* a state no login initiation has handed out
NoFlow == [nil |-> TRUE]

\* no PlatformRepository call yet, and a goroutine outside getKeyfunc
NoQuery == [op |-> "none"]
NoKeyfunc == [url |-> "", access |-> "none", err |-> FALSE]

\* no ValidateToken call and no request under AuthMiddleware yet
NoVerdict == [called |-> FALSE]
NoCall == [served |-> FALSE]

\* handler_test.go:124-129  a registered platform, and a second one
PlatformA ==
    [ID |-> 1, Issuer |-> "https://canvas.example.com", ClientID |-> "client-123",
     JWKSEndpoint |-> "https://canvas.example.com/.well-known/jwks",
     AuthEndpoint |-> "https://canvas.example.com/api/lti/authorize",
     Deleted |-> FALSE]
PlatformB ==
    [ID |-> 2, Issuer |-> "https://moodle.example.com", ClientID |-> "client-456",
     JWKSEndpoint |-> "https://moodle.example.com/jwks",
     AuthEndpoint |-> "https://moodle.example.com/auth?tenant=t1",
     Deleted |-> FALSE]

\* a user a previous launch has created
UserAnn ==
    [ID |-> 1, CanvasUserID |-> "u1", CanvasInstanceURL |-> PlatformA.Issuer,
     DisplayName |-> "Ann", Email |-> "ann@old.example"]

\* state.go:25-32  NewStateStore, and handler.go:41-50  NewHandlerWithConfig
Init ==
    /\ now = 0
    /\ states = <<>>
    /\ muWriter = 0
    /\ muReaders = {}
    /\ sweepPc = "wait"
    /\ ticked = FALSE
    /\ pc = [w \in Workers |-> "idle"]
    /\ ret = [w \in Workers |-> "idle"]
    /\ key = [w \in Workers |-> ""]
    /\ arg = [w \in Workers |-> NilData]
    /\ res = [w \in Workers |-> NoResult]
    /\ gen = [k \in AllKeys |-> 0]
    /\ lastStored = [k \in AllKeys |-> NilData]
    /\ hits = [k \in AllKeys |-> 0]
    /\ got = [w \in Workers |-> 0]
    /\ platforms = <<PlatformA, PlatformB>>
    /\ users = <<UserAnn>>
    /\ jwksCache = {}
    /\ randCtr = 0
    /\ req = [w \in Workers |-> NoRequest]
    /\ loc = [w \in Workers |-> NoLocals]
    /\ resp = [w \in Workers |-> NoResponse]
    /\ minted = [k \in AllKeys |-> 0]
    /\ sessions = <<>>
    /\ wall = 0
    /\ issued = <<>>
    /\ verdict = NoVerdict
    /\ api = NoCall
    /\ shown = {}
    /\ km = NilKeyManager
    /\ kmReaders = {}
    /\ kmOut = [w \in Workers |-> NoOutput]
    /\ published = [kids |-> {}, docs |-> {}]
    /\ started = [k \in AllKeys |-> NoFlow]
    /\ dbOut = NoQuery
    /\ keyfunc = [w \in Workers |-> NoKeyfunc]

\* ------------------------------------------------------------ HTTP requests
storeState == <<now, states, muWriter, muReaders, sweepPc, ticked>>
history == <<gen, lastStored, hits, got>>

\* handler_test.go:136-138  the login request of the tests, and its variations
LoginBase ==
    [kind |-> "login", iss |-> PlatformA.Issuer, login_hint |-> "user123",
     target_link_uri |-> "https://app.com/launch", client_id |-> "",
     lti_message_hint |-> "", tls |-> FALSE, host |-> "localhost:8080",
     fwdProto |-> "", fwdHost |-> ""]
LoginRequests ==
    {LoginBase,
     [LoginBase EXCEPT !.client_id = "client-123", !.lti_message_hint = "hint-1",
                       !.fwdProto = "https", !.fwdHost = "journal.example.com"],
     [LoginBase EXCEPT !.iss = PlatformB.Issuer, !.tls = TRUE],
     [LoginBase EXCEPT !.client_id = "client-999"],
     [LoginBase EXCEPT !.iss = "https://unknown.example.com"],
     [LoginBase EXCEPT !.iss = ""],
     [LoginBase EXCEPT !.login_hint = ""],
     [LoginBase EXCEPT !.target_link_uri = ""],
     [LoginBase EXCEPT !.iss = "", !.login_hint = ""],
     [LoginBase EXCEPT !.iss = "", !.target_link_uri = ""],
     [LoginBase EXCEPT !.login_hint = "", !.target_link_uri = ""],
     [LoginBase EXCEPT !.iss = "https://unknown.example.com", !.login_hint = ""]}

\* the nonces the first logins hand out (every second draw)
LoginNonces == {RandomToken(2), RandomToken(4)}

\* an id_token a platform (or an attacker) may post
TokenA(n) ==
    [empty |-> FALSE, signedBy |-> "key-canvas", iss |-> PlatformA.Issuer,
     aud |-> {PlatformA.ClientID}, nonce |-> n,
     messageType |-> "LtiResourceLinkRequest", timeValid |-> TRUE,
     sub |-> "u2", name |-> "Bea", email |-> "bea@example.com",
     roles |-> <<"http://purl.imsglobal.org/vocab/lis/v2/membership#Learner">>,
     contextID |-> "course-123"]
TokenB(n) ==
    [TokenA(n) EXCEPT !.signedBy = "key-moodle", !.iss = PlatformB.Issuer,
                      !.aud = {PlatformB.ClientID}]
EmptyToken ==
    [empty |-> TRUE, signedBy |-> "", iss |-> "", aud |-> {}, nonce |-> "",
     messageType |-> "", timeValid |-> FALSE, sub |-> "", name |-> "", email |-> "",
     roles |-> <<>>, contextID |-> ""]
TokenFaults(t) ==
    {[t EXCEPT !.signedBy = "key-attacker"],
     [t EXCEPT !.signedBy = "key-moodle"],
     [t EXCEPT !.iss = PlatformB.Issuer],
     [t EXCEPT !.aud = {"client-999"}],
     [t EXCEPT !.nonce = ""],
     [t EXCEPT !.messageType = "LtiSubmissionReviewRequest"],
     [t EXCEPT !.messageType = ""],
     [t EXCEPT !.timeValid = FALSE]}
TokenVariants(t) ==
    {[t EXCEPT !.messageType = "LtiDeepLinkingRequest",
               !.aud = {"other-tool", PlatformA.ClientID}],
     [t EXCEPT !.sub = "u1", !.name = "Ann", !.email = "ann@old.example"],
     [t EXCEPT !.sub = "u1", !.name = "Anna", !.email = "", !.roles =
         <<"http://purl.imsglobal.org/vocab/lis/v2/membership#Learner",
           "http://purl.imsglobal.org/vocab/lis/v2/membership#Instructor">>],
     [t EXCEPT !.roles =
         <<"http://purl.imsglobal.org/vocab/lis/v2/institution/person#Instructor">>],
     [t EXCEPT !.roles = <<>>],
     [t EXCEPT !.roles =
         <<"Instructor",
           "http://purl.imsglobal.org/vocab/lis/v2/membership/Instructor#TeachingAssistant">>]}

LaunchRequest(t, s, tls) ==
    [kind |-> "launch", id_token |-> t, state |-> s, tls |-> tls]

\* the launches that answer the first two logins as the platform would
PlainLaunches ==
    {LaunchRequest(TokenA(RandomToken(2)), RandomToken(1), FALSE),
     LaunchRequest(TokenA(RandomToken(4)), RandomToken(3), TRUE)}

\* launches with one thing wrong, or with other users and platforms
OddLaunches ==
    {LaunchRequest(t, RandomToken(1), FALSE) :
        t \in TokenFaults(TokenA(RandomToken(2)))
              \cup TokenVariants(TokenA(RandomToken(2)))
              \cup {TokenB(RandomToken(2)), EmptyToken}}
    \cup {LaunchRequest(TokenA(RandomToken(2)), s, FALSE) :
            s \in {"", "bogus", RandomToken(3)}}
    \cup {LaunchRequest(EmptyToken, "", FALSE)}

\* a launch whose state no login has handed out
BogusLaunch == LaunchRequest(TokenA(RandomToken(2)), "bogus", FALSE)

\* c.JSON(status, gin.H{"error": msg}); return
Respond(w, status, msg) ==
    /\ resp' = [resp EXCEPT ![w] = [NoResponse EXCEPT !.status = status,
                                                     !.error = msg]]
    /\ pc' = [pc EXCEPT ![w] = "done"]

\* ------------------------------------------- Handler.LoginInitiation, stepwise
\* a handler that looks at login_hint before iss
MissingParameterHintFirst(r) ==
    IF r.login_hint = "" THEN "missing login_hint parameter"
    ELSE IF r.iss = "" THEN "missing iss parameter"
    ELSE IF r.target_link_uri = "" THEN "missing target_link_uri parameter"
    ELSE ""

\* handler.go:63-74  the first required parameter that is missing
MissingParameter(r) ==
    IF r.iss = "" THEN "missing iss parameter"
    ELSE IF r.login_hint = "" THEN "missing login_hint parameter"
    ELSE IF r.target_link_uri = "" THEN "missing target_link_uri parameter"
    ELSE ""

\* handler.go:56-107 up to the call of stateStore.Store; entropy is how many
\* of the two crypto/rand reads succeed
LoginInitiation(w, r, entropy) ==
    /\ pc[w] = "idle"
    /\ req' = [req EXCEPT ![w] = r]
    /\ LET found == FindByIssuer(platforms, r.iss)
           platform == found.platform
           state == RandomToken(randCtr + 1)
           nonce == RandomToken(randCtr + 2)
           Fail(status, msg) ==
               /\ Respond(w, status, msg)
               /\ UNCHANGED <<ret, key, arg, loc, randCtr, started>>
       IN  IF MissingParameter(r) # "" THEN Fail(400, MissingParameter(r))
           ELSE IF found.err THEN Fail(400, "unknown platform issuer")
           ELSE IF r.client_id # "" /\ r.client_id # platform.ClientID
                THEN Fail(400, "client_id mismatch")
           ELSE IF entropy = 0 THEN Fail(500, "failed to generate state")
           ELSE IF entropy = 1 THEN Fail(500, "failed to generate nonce")
           ELSE /\ randCtr + 2 <= MaxRandom
                /\ randCtr' = randCtr + 2
                /\ loc' = [loc EXCEPT ![w] = [NoLocals EXCEPT !.platform = platform,
                                                 !.state = state, !.nonce = nonce]]
                /\ key' = [key EXCEPT ![w] = state]
                /\ arg' = [arg EXCEPT ![w] =
                             [Nonce |-> nonce, TargetLinkURI |-> r.target_link_uri,
                              ClientID |-> platform.ClientID, CreatedAt |-> 0]]
                /\ ret' = [ret EXCEPT ![w] = "login_stored"]
                /\ pc' = [pc EXCEPT ![w] = "store_lock"]
                /\ started' = [started EXCEPT ![state] =
                                  [platform |-> platform, registry |-> platforms]]
                /\ UNCHANGED resp
    /\ UNCHANGED <<storeState, sessionVars, keyVars, sideVars, history, res, platforms, users, jwksCache, minted,
                   sessions>>

\* handler.go:110-135
LoginRedirect(w) ==
    /\ pc[w] = "login_stored"
    /\ LET platform == loc[w].platform
           authURL == UrlParse(platform.AuthEndpoint)
           q == AuthQuery(authURL.query, platform, getLaunchURL(req[w]),
                          req[w].login_hint, loc[w].state, loc[w].nonce,
                          req[w].lti_message_hint)
       IN  IF authURL.err
           THEN Respond(w, 500, "invalid auth endpoint")
           ELSE /\ resp' = [resp EXCEPT ![w] =
                     [NoResponse EXCEPT !.status = 302,
                         !.location = [base |-> authURL.base, query |-> q]]]
                /\ pc' = [pc EXCEPT ![w] = "done"]
    /\ UNCHANGED <<storeState, sessionVars, keyVars, sideVars, history, ret, key, arg, res, platforms, users,
                   jwksCache, randCtr, req, loc, minted, sessions, started>>

\* ------------------------------------------------- SessionManager, as code
\* a compact JWT is three segments: header, payload and signature.  A
\* signature records the algorithm and key that computed it and the bytes it
\* was computed over
NoSignature == [alg |-> "", signingKey |-> "", header |-> <<>>, payload |-> <<>>]
\* the empty string, and a string that is no JWT (session_test.go:53)
NoToken == [segments |-> 0, header |-> <<>>, payload |-> <<>>, sig |-> NoSignature]
InvalidToken == [segments |-> 1, header |-> <<>>, payload |-> <<>>, sig |-> NoSignature]

\* the signing methods golang-jwt registers, and its HMAC family
RegisteredMethods ==
    {"HS256", "HS384", "HS512", "RS256", "RS384", "RS512", "ES256", "ES384",
     "ES512", "PS256", "PS384", "PS512", "EdDSA", "none"}

\* jwt.NewNumericDate: a time truncated to the whole second, in seconds
NewNumericDate(t) == t \div TicksPerSecond

\* encoding/json of a string field tagged omitempty
OmitEmpty(q, k, v) == IF v = "" THEN q ELSE QSet(q, k, v)

\* session.go:37-47  the claims, as the JSON object json.Marshal makes of them
EncodeClaims(m, userID, canvasID, courseID, role, t) ==
    LET q1 == QSet(<<>>, "exp", NewNumericDate(t + m.maxAge * TicksPerSecond))
        q2 == QSet(q1, "iat", NewNumericDate(t))
        q3 == QSet(q2, "nbf", NewNumericDate(t))
        q4 == QSet(q3, "user_id", userID)
        q5 == QSet(q4, "canvas_id", canvasID)
        q6 == OmitEmpty(q5, "course_id", courseID)
    IN  OmitEmpty(q6, "role", role)

\* json.Unmarshal into SessionClaims: a key that is absent leaves the zero value
Field(q, k, zero) == IF k \in DOMAIN q THEN q[k] ELSE zero
NilClaims == [nil |-> TRUE]
DecodeClaims(q) ==
    [UserID |-> Field(q, "user_id", 0), CanvasID |-> Field(q, "canvas_id", ""),
     CourseID |-> Field(q, "course_id", ""), Role |-> Field(q, "role", "")]

\* Token.SignedString: the MAC of header and payload under the key
Sign(alg, signingKey, header, payload) ==
    [segments |-> 3, header |-> header, payload |-> payload,
     sig |-> [alg |-> alg, signingKey |-> signingKey, header |-> header,
              payload |-> payload]]

\* session.go:35-51  CreateToken at time t
CreateToken(m, userID, canvasID, courseID, role, t) ==
    Sign("HS256", m.secret, [alg |-> "HS256", typ |-> "JWT"],
         EncodeClaims(m, userID, canvasID, courseID, role, t))

\* a verification that takes any key
VerifyAnyKey(tok, signingKey) ==
    /\ tok.sig.alg = tok.header.alg
    /\ tok.sig.header = tok.header /\ tok.sig.payload = tok.payload

\* SigningMethodHMAC.Verify: the MAC recomputed with the header's hash and the
\* key given equals the signature segment
Verify(tok, signingKey) ==
    /\ tok.sig.alg = tok.header.alg
    /\ tok.sig.signingKey = signingKey
    /\ tok.sig.header = tok.header /\ tok.sig.payload = tok.payload

\* an expiry check that still admits the token at the instant of exp
ExpiredAfter(q, t) == "exp" \in DOMAIN q /\ t > q["exp"] * TicksPerSecond

\* jwt Validator.verifyExpiresAt: valid only while now is before exp
TokenExpired(q, t) == "exp" \in DOMAIN q /\ ~(t < q["exp"] * TicksPerSecond)

\* jwt Validator.verifyNotBefore
TokenNotValidYet(q, t) == "nbf" \in DOMAIN q /\ t < q["nbf"] * TicksPerSecond

\* session.go:56-58  the key function: is the method of the HMAC family
IsSigningMethodHMAC(alg) == alg \in {"HS256", "HS384", "HS512"}

\* session.go:54-72  ValidateToken at time t: jwt.ParseWithClaims splits the
\* token, looks up the header's method, asks the key function for the key,
\* verifies the signature and then the registered claims
SessionValidateToken(m, tok, t) ==
    LET Fail(msg) == [err |-> msg, claims |-> NilClaims]
    IN  IF tok.segments # 3 THEN Fail("token is malformed")
        ELSE IF tok.header.alg \notin RegisteredMethods
        THEN Fail("token is unverifiable: signing method (alg) is unavailable")
        ELSE IF ~IsSigningMethodHMAC(tok.header.alg)
        THEN Fail("token is unverifiable: unexpected signing method")
        ELSE IF ~Verify(tok, m.secret) THEN Fail("token signature is invalid")
        ELSE IF TokenExpired(tok.payload, t) THEN Fail("token is expired")
        ELSE IF TokenNotValidYet(tok.payload, t) THEN Fail("token is not valid yet")
        ELSE [err |-> "", claims |-> DecodeClaims(tok.payload)]

\* handler.go:30-38  the SessionManager of the default handler configuration
HandlerSession == [secret |-> "change-me-in-production", maxAge |-> SessionMaxAgeSeconds]

\* -------------------------------------------------- Handler.Launch, stepwise

\* a handler that goes on whatever the validator said
ValidationIgnored(err) == "find_user"

\* handler.go:170  a failed validation ends the request with 401
AfterValidation(err) == IF err # "" THEN "reject" ELSE "find_user"

\* a Launch that consumes the state before it looks at its parameters
LaunchStartGetFirst(w, r) ==
    /\ pc[w] = "idle"
    /\ req' = [req EXCEPT ![w] = r]
    /\ key' = [key EXCEPT ![w] = r.state]
    /\ ret' = [ret EXCEPT ![w] = "launch_got"]
    /\ pc' = [pc EXCEPT ![w] = "get_lock"]
    /\ UNCHANGED <<storeState, sessionVars, keyVars, sideVars, history, arg, res, platforms, users, jwksCache,
                   randCtr, loc, resp, minted, sessions, started>>

\* handler.go:142-155 up to the call of stateStore.Get
LaunchStart(w, r) ==
    /\ pc[w] = "idle"
    /\ req' = [req EXCEPT ![w] = r]
    /\ IF r.id_token.empty
       THEN Respond(w, 400, "missing id_token") /\ UNCHANGED <<ret, key>>
       ELSE IF r.state = ""
       THEN Respond(w, 400, "missing state") /\ UNCHANGED <<ret, key>>
       ELSE /\ key' = [key EXCEPT ![w] = r.state]
            /\ ret' = [ret EXCEPT ![w] = "launch_got"]
            /\ pc' = [pc EXCEPT ![w] = "get_lock"]
            /\ UNCHANGED resp
    /\ UNCHANGED <<storeState, sessionVars, keyVars, sideVars, history, arg, res, platforms, users, jwksCache,
                   randCtr, loc, minted, sessions, started>>

\* handler.go:156-166  the result of Get, then FindByClientID
LaunchPlatform(w) ==
    /\ pc[w] = "launch_got"
    /\ LET found == FindByClientID(platforms, res[w].data.ClientID)
       IN  IF ~res[w].ok
           THEN Respond(w, 400, "invalid or expired state") /\ UNCHANGED loc
           ELSE IF found.err
           THEN Respond(w, 400, "platform not found") /\ UNCHANGED loc
           ELSE /\ loc' = [loc EXCEPT ![w].platform = found.platform]
                /\ pc' = [pc EXCEPT ![w] = "launch_validate"]
                /\ UNCHANGED resp
    /\ UNCHANGED <<storeState, sessionVars, keyVars, sideVars, history, ret, key, arg, res, platforms, users,
                   jwksCache, randCtr, req, minted, sessions, started>>

\* a launch that creates the user from the claims before it validates them
LaunchValidateLate(w, fetched) ==
    /\ pc[w] = "launch_validate"
    /\ users' = CreateUser(users, req[w].id_token, loc[w].platform)
    /\ Respond(w, 401, "token validation failed: late")
    /\ UNCHANGED <<storeState, sessionVars, keyVars, sideVars, history, ret, key, arg, res, platforms, jwksCache,
                   randCtr, req, loc, minted, sessions, started>>

\* handler.go:169-173 with jwt.go:112-162  ValidateToken: getKeyfunc takes the
\* key set from the cache or fetches it (fetched: the platform answered in
\* time) and caches it, then the token is checked against it
LaunchValidate(w, fetched) ==
    /\ pc[w] = "launch_validate"
    /\ LET url == loc[w].platform.JWKSEndpoint
           err == ValidateToken(req[w].id_token, loc[w].platform,
                                res[w].data.Nonce, PublishedKeys(url))
       IN  IF ~(url \in jwksCache \/ fetched)
           THEN /\ Respond(w, 401, "token validation failed: failed to get JWKS")
                /\ UNCHANGED <<jwksCache, loc>>
           ELSE /\ jwksCache' = jwksCache \cup {url}
                /\ IF AfterValidation(err) = "reject"
                   THEN Respond(w, 401, "token validation failed: " \o err)
                            /\ UNCHANGED loc
                   ELSE /\ pc' = [pc EXCEPT ![w] = "launch_find_user"]
                        /\ UNCHANGED <<resp, loc>>
    /\ UNCHANGED <<storeState, sessionVars, keyVars, sideVars, history, ret, key, arg, res, platforms, users,
                   randCtr, req, minted, sessions, started>>

\* handler.go:221-227 and 241-243  the query for the user; dbOK is the database
\* answering
LaunchFindUser(w, dbOK) ==
    /\ pc[w] = "launch_find_user"
    /\ LET i == FindUser(users, req[w].id_token.sub, loc[w].platform.Issuer)
       IN  IF ~dbOK
           THEN Respond(w, 500, "failed to process user") /\ UNCHANGED loc
           ELSE /\ loc' = [loc EXCEPT ![w].user = IF i = 0 THEN NilUser ELSE users[i]]
                /\ pc' = [pc EXCEPT ![w] = "launch_save_user"]
                /\ UNCHANGED resp
    /\ UNCHANGED <<storeState, sessionVars, keyVars, sideVars, history, ret, key, arg, res, platforms, users,
                   jwksCache, randCtr, req, minted, sessions, started>>

\* handler.go:182-216  role, session token, cookie and redirect
Established(w, user) ==
    LET claims == req[w].id_token
        role == IF IsInstructor(claims) THEN "instructor" ELSE "learner"
        token == CreateToken(HandlerSession, user.ID, claims.sub, claims.contextID,
                             role, now * 60 * TicksPerSecond)
        target == res[w].data.TargetLinkURI
    IN  [NoResponse EXCEPT
            !.status = 302,
            !.cookie = [name |-> "session", value |-> token,
                        maxAge |-> SessionMaxAgeSeconds, path |-> "/",
                        secure |-> req[w].tls, httpOnly |-> TRUE],
            !.location = [base |-> IF target # "" THEN target ELSE "/",
                          query |-> <<>>]]

\* history: the identity a launch presented and the local user it was given
SessionOf(claims, platform, user) ==
    [sub |-> claims.sub, iss |-> platform.Issuer, userID |-> user.ID]

\* handler.go:228-239 and 245-259  create or refresh the user, then
\* handler.go:182-216; dbOK is the database accepting the write
LaunchSaveUser(w, dbOK) ==
    /\ pc[w] = "launch_save_user"
    /\ LET claims == req[w].id_token
           created == CreateUser(users, claims, loc[w].platform)
           fresh == RefreshUser(loc[w].user, claims)
       IN  IF loc[w].user = NilUser
           THEN IF ~dbOK
                THEN /\ Respond(w, 500, "failed to process user")
                     /\ UNCHANGED <<users, loc, minted, sessions>>
                ELSE /\ users' = created
                     /\ loc' = [loc EXCEPT ![w].user = created[Len(created)]]
                     /\ resp' = [resp EXCEPT ![w] =
                                    Established(w, created[Len(created)])]
                     /\ minted' = [minted EXCEPT ![key[w]] = @ + 1]
                     /\ sessions' = Append(sessions,
                           SessionOf(claims, loc[w].platform, created[Len(created)]))
                     /\ pc' = [pc EXCEPT ![w] = "done"]
           ELSE /\ users' = IF fresh # loc[w].user /\ dbOK
                            THEN SaveUser(users, fresh) ELSE users
                /\ loc' = [loc EXCEPT ![w].user = fresh]
                /\ resp' = [resp EXCEPT ![w] = Established(w, fresh)]
                /\ minted' = [minted EXCEPT ![key[w]] = @ + 1]
                /\ sessions' = Append(sessions, SessionOf(claims, loc[w].platform, fresh))
                /\ pc' = [pc EXCEPT ![w] = "done"]
    /\ UNCHANGED <<storeState, sessionVars, keyVars, sideVars, history, ret, key, arg, res, platforms, jwksCache,
                   randCtr, req, started>>

\* the response is on the wire and the goroutine ends
Finish(w) ==
    /\ pc[w] = "done"
    /\ pc' = [pc EXCEPT ![w] = "idle"]
    /\ ret' = [ret EXCEPT ![w] = "idle"]
    /\ key' = [key EXCEPT ![w] = ""]
    /\ arg' = [arg EXCEPT ![w] = NilData]
    /\ res' = [res EXCEPT ![w] = NoResult]
    /\ got' = [got EXCEPT ![w] = 0]
    /\ req' = [req EXCEPT ![w] = NoRequest]
    /\ loc' = [loc EXCEPT ![w] = NoLocals]
    /\ resp' = [resp EXCEPT ![w] = NoResponse]
    /\ UNCHANGED <<storeState, sessionVars, keyVars, sideVars, gen, lastStored, hits, platforms, users, jwksCache,
                   randCtr, minted, sessions, started>>

\* part_019:80-82  Delete: an administrator deregisters a platform (soft delete)
DeletePlatform(id) ==
    /\ \E i \in 1..Len(platforms) : platforms[i].ID = id /\ ~platforms[i].Deleted
    /\ platforms' = [i \in 1..Len(platforms) |->
                        IF platforms[i].ID = id
                        THEN [platforms[i] EXCEPT !.Deleted = TRUE]
                        ELSE platforms[i]]
    /\ dbOut' = [op |-> "Delete", arg |-> [ID |-> id], err |-> FALSE]
    /\ UNCHANGED <<storeState, sessionVars, keyVars, keyfunc, history, pc, ret, key, arg, res, users, jwksCache,
                   randCtr, req, loc, resp, minted, sessions, started>>

HandlerSteps(W) ==
    \/ \E w \in W : LoginRedirect(w)
    \/ \E w \in W : LaunchPlatform(w)
    \/ \E w \in W, f \in BOOLEAN : LaunchValidate(w, f)
    \/ \E w \in W, ok \in BOOLEAN : LaunchFindUser(w, ok)
    \/ \E w \in W, ok \in BOOLEAN : LaunchSaveUser(w, ok)
    \/ \E w \in W : Finish(w)
    \/ \E w \in W : StoreLock(w)
    \/ \E w \in W : StoreBody(w)
    \/ \E w \in W : GetLock(w)
    \/ \E w \in W : GetRead(w)
    \/ \E w \in W : GetRemove(w)
    \/ DeletePlatform(PlatformA.ID)
    \/ CleanupLock
    \/ CleanupSweep
    \/ Tick(TTLMinutes + TickMinutes)

\* requests of every kind, served one after the other by one goroutine
Next ==
    \/ \E r \in LoginRequests, e \in 0..2 : LoginInitiation(1, r, e)
    \/ \E r \in PlainLaunches \cup OddLaunches : LaunchStart(1, r)
    \/ HandlerSteps({1})

Spec == Init /\ [][Next]_vars

\* well-formed requests, replays included, served concurrently
NextRace ==
    \/ \E w \in Workers : LoginInitiation(w, LoginBase, 2)
    \/ \E w \in Workers, r \in PlainLaunches \cup {BogusLaunch} : LaunchStart(w, r)
    \/ HandlerSteps(Workers)

SpecRace == Init /\ [][NextRace]_vars

\* ------------------------------------- the StateStore driven through its API
\* state_test.go:44-49  the data a caller hands to Store
TestKeys == {RandomToken(1)}
LookupKeys == TestKeys \cup {"bogus"}
TestData ==
    {[Nonce |-> n, TargetLinkURI |-> "https://example.com/launch",
      ClientID |-> "client-123", CreatedAt |-> 0] : n \in {"test-nonce", "other-nonce"}}

StoresSoFar == gen[RandomToken(1)]

CallStore(w, s, d) ==
    /\ pc[w] = "idle"
    /\ StoresSoFar < MaxStores
    /\ pc' = [pc EXCEPT ![w] = "store_lock"]
    /\ ret' = [ret EXCEPT ![w] = "stored"]
    /\ key' = [key EXCEPT ![w] = s]
    /\ arg' = [arg EXCEPT ![w] = d]
    /\ UNCHANGED <<handlerVars, sessionVars, sideVars, keyVars, sideVars, now, states, muWriter, muReaders, sweepPc, ticked,
                   res, gen, lastStored, hits, got>>

CallGet(w, s) ==
    /\ pc[w] = "idle"
    /\ pc' = [pc EXCEPT ![w] = "get_lock"]
    /\ ret' = [ret EXCEPT ![w] = "got"]
    /\ key' = [key EXCEPT ![w] = s]
    /\ UNCHANGED <<handlerVars, sessionVars, sideVars, keyVars, sideVars, now, states, muWriter, muReaders, sweepPc, ticked,
                   arg, res, gen, lastStored, hits, got>>

CallPeek(w, s) ==
    /\ pc[w] = "idle"
    /\ pc' = [pc EXCEPT ![w] = "peek_lock"]
    /\ ret' = [ret EXCEPT ![w] = "peeked"]
    /\ key' = [key EXCEPT ![w] = s]
    /\ UNCHANGED <<handlerVars, sessionVars, sideVars, keyVars, sideVars, now, states, muWriter, muReaders, sweepPc, ticked,
                   arg, res, gen, lastStored, hits, got>>

\* the caller has looked at the result and drops it
Return(w) ==
    /\ pc[w] \in {"stored", "got", "peeked"}
    /\ pc' = [pc EXCEPT ![w] = "idle"]
    /\ ret' = [ret EXCEPT ![w] = "idle"]
    /\ key' = [key EXCEPT ![w] = ""]
    /\ arg' = [arg EXCEPT ![w] = NilData]
    /\ res' = [res EXCEPT ![w] = NoResult]
    /\ got' = [got EXCEPT ![w] = 0]
    /\ UNCHANGED <<handlerVars, sessionVars, sideVars, keyVars, sideVars, now, states, muWriter, muReaders, sweepPc, ticked,
                   gen, lastStored, hits>>

NextStore ==
    \/ \E w \in Workers, s \in TestKeys, d \in TestData : CallStore(w, s, d)
    \/ \E w \in Workers, s \in LookupKeys : CallGet(w, s)
    \/ \E w \in Workers, s \in LookupKeys : CallPeek(w, s)
    \/ \E w \in Workers : Return(w)
    \/ StoreSteps
    \/ CleanupLock
    \/ CleanupSweep
    \/ Tick(TickMinutes)

SpecStore == Init /\ [][NextStore]_vars

\* --------------------------------------- the SessionManager driven through its API
\* session_test.go:59-61, 76  managers that differ in secret and in max age
Managers ==
    {[secret |-> sec, maxAge |-> age] : sec \in {"secret-1", "secret-2"},
                                       age \in {1, 2}}

\* session_test.go:22, 63, 95  the arguments of CreateToken
SessionInputs ==
    {<<123, "canvas-user-1", "course-456", "instructor">>,
     <<1, "user", "course", "learner">>,
     <<1, "user", "", "">>}

\* what a client can make of a token it holds: other algorithms in the header
\* (signed with whatever key the forger has), a changed payload under the old
\* signature, and strings that are no token
OtherTokens(tok) ==
    LET Alg(a) == [tok.header EXCEPT !.alg = a]
    IN  {Sign("HS384", tok.sig.signingKey, Alg("HS384"), tok.payload),
         Sign("HS256", "attacker-secret", tok.header, tok.payload),
         Sign("RS256", "attacker-rsa-key", Alg("RS256"), tok.payload),
         [Sign("HS256", "server-public-key", Alg("RS256"), tok.payload)
             EXCEPT !.sig.alg = "HS256"],
         Sign("XS256", tok.sig.signingKey, Alg("XS256"), tok.payload),
         [tok EXCEPT !.header = Alg("none"), !.sig = NoSignature],
         [tok EXCEPT !.payload = QSet(tok.payload, "role", "admin")],
         InvalidToken}

\* the token strings a caller may present
Presented ==
    {NoToken, InvalidToken}
        \cup {issued[i].token : i \in 1..Len(issued)}
        \cup UNION {OtherTokens(issued[i].token) : i \in 1..Len(issued)}

\* a call of CreateToken on manager m
SessionCreate(m, in) ==
    /\ Len(issued) < MaxTokens
    /\ issued' = Append(issued,
                    [token |-> CreateToken(m, in[1], in[2], in[3], in[4], wall),
                     by |-> m, at |-> wall, in |-> in])
    /\ UNCHANGED <<storeVars, pc, ret, handlerVars, keyVars, sideVars, wall, verdict, api, shown>>

\* a call of ValidateToken on manager m
SessionValidate(m, tok) ==
    /\ verdict' = [called |-> TRUE, by |-> m, token |-> tok, at |-> wall,
                   result |-> SessionValidateToken(m, tok, wall)]
    /\ UNCHANGED <<storeVars, pc, ret, handlerVars, keyVars, sideVars, wall, issued, api, shown>>

\* the session clock advances by one tick
WallTick ==
    /\ wall < MaxWall
    /\ wall' = wall + 1
    /\ UNCHANGED <<storeVars, pc, ret, handlerVars, keyVars, sideVars, issued, verdict, api, shown>>

NextSession ==
    \/ \E m \in Managers, in \in SessionInputs : SessionCreate(m, in)
    \/ \E m \in Managers, tok \in Presented : SessionValidate(m, tok)
    \/ WallTick

SpecSession == Init /\ [][NextSession]_vars

\* ------------------------------------------------------ AuthMiddleware, as code
\* the manager the middleware is built with
AuthSession == [secret |-> "secret-1", maxAge |-> 1]

\* a request: the session cookie (NoToken when absent or empty) and the
\* Authorization header as scheme and credentials.  Scheme "" is no header,
\* scheme "raw" is a header that is one word
NoContext == [nil |-> TRUE]
ApiRequest(cookie, scheme, credentials) ==
    [cookie |-> cookie, scheme |-> scheme, credentials |-> credentials]

\* an extraction that prefers the Authorization header
extractTokenHeaderFirst(r) ==
    IF r.scheme \in {"Bearer", "bearer"} THEN r.credentials
    ELSE IF r.scheme = "raw" THEN r.credentials
    ELSE IF r.scheme # "" THEN InvalidToken
    ELSE r.cookie

\* auth.go:112-132  extractToken
extractToken(r) ==
    IF r.cookie # NoToken THEN r.cookie
    ELSE IF r.scheme = "" THEN NoToken
    ELSE IF r.scheme \in {"Bearer", "bearer"} THEN r.credentials
    ELSE IF r.scheme = "raw" THEN r.credentials
    ELSE InvalidToken

\* auth.go:28-32, 36-40  c.AbortWithStatusJSON(401, gin.H{"error": msg})
Abort(msg) == [status |-> 401, body |-> msg, ctx |-> NoContext, next |-> FALSE]

\* auth.go:45-51  the context the next handler runs with (it answers 200)
Proceed(claims) ==
    [status |-> 200, body |-> "",
     ctx |-> [user_id |-> claims.UserID, canvas_id |-> claims.CanvasID,
              course_id |-> claims.CourseID, role |-> claims.Role,
              session_claims |-> claims],
     next |-> TRUE]

\* auth.go:57-81  OptionalAuthMiddleware: the next handler runs in any case
OptionalAuthMiddleware(sm, r, t) ==
    LET token == extractToken(r)
        v == SessionValidateToken(sm, token, t)
    IN  IF token = NoToken \/ v.err # ""
        THEN [status |-> 200, body |-> "", ctx |-> NoContext, next |-> TRUE]
        ELSE Proceed(v.claims)

\* auth.go:25-53  AuthMiddleware
AuthMiddleware(sm, r, t) ==
    LET token == extractToken(r)
        v == SessionValidateToken(sm, token, t)
    IN  IF token = NoToken THEN Abort("missing or invalid authorization")
        ELSE IF v.err # "" THEN Abort("invalid or expired session")
        ELSE Proceed(v.claims)

\* part_020:498-501  the token of a second user, valid at time t
HeaderToken(t) == CreateToken(AuthSession, 200, "header-user", "course", "learner", t)

\* the requests a client may send
IssuedTokens == {issued[i].token : i \in 1..Len(issued)}
ApiRequests ==
    {ApiRequest(tok, "", NoToken) : tok \in Presented}
        \cup {ApiRequest(NoToken, "Bearer", tok) : tok \in Presented}
        \cup {ApiRequest(NoToken, sch, tok) :
                 sch \in {"bearer", "raw", "Basic"}, tok \in IssuedTokens}
        \cup {ApiRequest(InvalidToken, "Bearer", tok) : tok \in IssuedTokens}
        \cup {ApiRequest(tok, "Bearer", HeaderToken(wall)) :
                 tok \in IssuedTokens \cup {NoToken, InvalidToken}}

\* one request through AuthMiddleware(AuthSession) and the handler behind it
Serve(r) ==
    /\ LET answer == AuthMiddleware(AuthSession, r, wall)
       IN  /\ api' = [served |-> TRUE, req |-> r, at |-> wall, answer |-> answer]
           /\ shown' = IF answer.next THEN shown
                        ELSE shown \cup {[status |-> answer.status,
                                          body |-> answer.body]}
    /\ UNCHANGED <<storeVars, pc, ret, handlerVars, keyVars, sideVars, wall, issued, verdict>>

NextAuth ==
    \/ \E m \in Managers, in \in SessionInputs : SessionCreate(m, in)
    \/ \E r \in ApiRequests : Serve(r)
    \/ WallTick

SpecAuth == Init /\ [][NextAuth]_vars

\* ------------------------------------------------------ KeyManager, as code
\* the RSA keys rsa.GenerateKey may return (modulus and public exponent), the
\* nil key of keys_test.go:138-142, and the ids rand.Read may produce
NilKey == [nil |-> TRUE]
PublicExponent == 65537
RSAKeys == {[N |-> n, E |-> PublicExponent] : n \in {"modulus-1", "modulus-2"}}
KeyIDs == {"kid-1", "kid-2"}

\* base64.RawURLEncoding.EncodeToString
Base64Url(bytes) == [base64url |-> bytes]

\* keys.go:79-109  GetJWKS, under the read lock
GetJWKS(k) ==
    IF k.privateKey = NilKey THEN [Keys |-> <<>>]
    ELSE [Keys |-> <<[kty |-> "RSA", use |-> "sig", kid |-> k.keyID,
                      alg |-> "RS256", n |-> Base64Url(k.privateKey.N),
                      e |-> Base64Url(k.privateKey.E)]>>]

\* keys.go:36-62  NewKeyManager and NewKeyManagerWithKey: the process gets
\* its KeyManager
NewKeyManager(privateKey, keyID) ==
    /\ km = NilKeyManager
    /\ km' = [privateKey |-> privateKey, keyID |-> keyID]
    /\ UNCHANGED <<storeVars, pc, ret, handlerVars, sessionVars, sideVars,
                   kmReaders, kmOut, published>>

\* keys.go:73 and 80  km.mu.RLock() at the start of GetKeyID or GetJWKS
KeyRLock(w, method) ==
    /\ km # NilKeyManager
    /\ pc[w] = "idle"
    /\ kmReaders' = kmReaders \cup {w}
    /\ pc' = [pc EXCEPT ![w] = method]
    /\ UNCHANGED <<storeVars, ret, handlerVars, sessionVars, sideVars, km, kmOut, published>>

\* keys.go:74-75  GetKeyID returns km.keyID and releases the read lock
GetKeyIDRead(w) ==
    /\ pc[w] = "GetKeyID"
    /\ kmOut' = [kmOut EXCEPT ![w] = [keyID |-> km.keyID]]
    /\ published' = [published EXCEPT !.kids = @ \cup {km.keyID}]
    /\ kmReaders' = kmReaders \ {w}
    /\ pc' = [pc EXCEPT ![w] = "key_returned"]
    /\ UNCHANGED <<storeVars, ret, handlerVars, sessionVars, sideVars, km>>

\* a GetJWKS that draws a new key id for every document
GetJWKSRegenerate(w) ==
    /\ pc[w] = "GetJWKS"
    /\ \E kid \in KeyIDs \ {km.keyID} :
          /\ km' = [km EXCEPT !.keyID = kid]
          /\ kmOut' = [kmOut EXCEPT ![w] = [jwks |-> GetJWKS(km')]]
          /\ published' = [published EXCEPT !.docs = @ \cup {GetJWKS(km')}]
    /\ kmReaders' = kmReaders \ {w}
    /\ pc' = [pc EXCEPT ![w] = "key_returned"]
    /\ UNCHANGED <<storeVars, ret, handlerVars, sessionVars, sideVars>>

\* keys.go:81-108  GetJWKS builds the document and releases the read lock
\* (jwks_handler.go:23-28 serves it)
GetJWKSRead(w) ==
    /\ pc[w] = "GetJWKS"
    /\ kmOut' = [kmOut EXCEPT ![w] = [jwks |-> GetJWKS(km)]]
    /\ published' = [published EXCEPT !.docs = @ \cup {GetJWKS(km)}]
    /\ kmReaders' = kmReaders \ {w}
    /\ pc' = [pc EXCEPT ![w] = "key_returned"]
    /\ UNCHANGED <<storeVars, ret, handlerVars, sessionVars, sideVars, km>>

\* the caller has used the result
KeyReturn(w) ==
    /\ pc[w] = "key_returned"
    /\ kmOut' = [kmOut EXCEPT ![w] = NoOutput]
    /\ pc' = [pc EXCEPT ![w] = "idle"]
    /\ UNCHANGED <<storeVars, ret, handlerVars, sessionVars, sideVars, km, kmReaders, published>>

NextKeys ==
    \/ \E k \in RSAKeys \cup {NilKey}, kid \in KeyIDs : NewKeyManager(k, kid)
    \/ \E w \in Workers, method \in {"GetKeyID", "GetJWKS"} : KeyRLock(w, method)
    \/ \E w \in Workers : GetKeyIDRead(w)
    \/ \E w \in Workers : GetJWKSRead(w)
    \/ \E w \in Workers : KeyReturn(w)

SpecKeys == Init /\ [][NextKeys]_vars

\* ------------------------------------------- PlatformRepository, as code
\* part_019:352-358  a Platform a caller fills in: no ID yet, not deleted
NewPlatform(issuer, clientID) ==
    [ID |-> 0, Issuer |-> issuer, ClientID |-> clientID,
     JWKSEndpoint |-> issuer \o "/jwks", AuthEndpoint |-> issuer \o "/auth",
     Deleted |-> FALSE]

\* a table without the unique index
NoUniqueIndex(tbl, issuer, id) == FALSE

\* part_019:12  uniqueIndex on issuer: another row holds this issuer.  The
\* index spans every row of the table, the soft-deleted ones included
IssuerTaken(tbl, issuer, id) ==
    \E i \in 1..Len(tbl) : tbl[i].Issuer = issuer /\ tbl[i].ID # id

\* part_019:40-42  Create: INSERT; the row gets the next primary key
RepoCreate(tbl, p) ==
    IF IssuerTaken(tbl, p.Issuer, 0)
    THEN [err |-> TRUE, tbl |-> tbl, platform |-> p]
    ELSE LET row == [p EXCEPT !.ID = IF Len(tbl) = 0 THEN 1
                                     ELSE tbl[Len(tbl)].ID + 1]
         IN  [err |-> FALSE, tbl |-> Append(tbl, row), platform |-> row]

\* part_019:75-77  Update: gorm Save inserts a platform that has no ID and
\* writes every column of the live row of that ID otherwise
RepoUpdate(tbl, p) ==
    IF p.ID = 0 THEN RepoCreate(tbl, p)
    ELSE IF IssuerTaken(tbl, p.Issuer, p.ID)
    THEN [err |-> TRUE, tbl |-> tbl, platform |-> p]
    ELSE [err |-> FALSE,
          tbl |-> [i \in 1..Len(tbl) |->
                      IF tbl[i].ID = p.ID /\ ~tbl[i].Deleted THEN p ELSE tbl[i]],
          platform |-> p]

\* part_019:92-102  Upsert
RepoUpsert(tbl, p) ==
    LET existing == FindByIssuer(tbl, p.Issuer)
    IN  IF ~existing.err
        THEN RepoUpdate(tbl, [p EXCEPT !.ID = existing.platform.ID])
        ELSE RepoCreate(tbl, p)

\* the issuers and client ids administrators register (part_019:343-358)
RegistryInputs ==
    {NewPlatform(iss, cid) :
        iss \in {PlatformA.Issuer, PlatformB.Issuer, "https://new.example.com"},
        cid \in {"client-123", "client-456"}}

\* the live rows, as FindByID and List return them
LiveRows == {platforms[i] : i \in {j \in 1..Len(platforms) : ~platforms[j].Deleted}}

\* a call of Create
Create(p) ==
    /\ platforms' = RepoCreate(platforms, p).tbl
    /\ dbOut' = [op |-> "Create", arg |-> p, err |-> RepoCreate(platforms, p).err]
    /\ UNCHANGED <<storeVars, pc, ret, sessionVars, keyVars, keyfunc, users,
                   jwksCache, randCtr, req, loc, resp, minted, sessions, started>>

\* a call of Update with a platform read from the registry and changed
Update(p) ==
    /\ platforms' = RepoUpdate(platforms, p).tbl
    /\ dbOut' = [op |-> "Update", arg |-> p, err |-> RepoUpdate(platforms, p).err]
    /\ UNCHANGED <<storeVars, pc, ret, sessionVars, keyVars, keyfunc, users,
                   jwksCache, randCtr, req, loc, resp, minted, sessions, started>>

\* a call of Upsert
Upsert(p) ==
    /\ platforms' = RepoUpsert(platforms, p).tbl
    /\ dbOut' = [op |-> "Upsert", arg |-> p, err |-> RepoUpsert(platforms, p).err]
    /\ UNCHANGED <<storeVars, pc, ret, sessionVars, keyVars, keyfunc, users,
                   jwksCache, randCtr, req, loc, resp, minted, sessions, started>>

NextRegistry ==
    \/ \E p \in RegistryInputs : Create(p)
    \/ \E row \in LiveRows, p \in RegistryInputs :
          Update([p EXCEPT !.ID = row.ID])
    \/ \E p \in RegistryInputs : Upsert(p)
    \/ \E row \in LiveRows : DeletePlatform(row.ID)

SpecRegistry == Init /\ [][NextRegistry]_vars

\* ------------------------- the StateStore with its goroutines scheduled
\* abandoned and completed logins against a store whose cleanup goroutine runs
NextSweep ==
    \/ \E w \in Workers, s \in TestKeys, d \in TestData : CallStore(w, s, d)
    \/ \E w \in Workers, s \in TestKeys : CallGet(w, s)
    \/ \E w \in Workers : Return(w)
    \/ \E w \in Workers : StoreLock(w)
    \/ \E w \in Workers : StoreBody(w)
    \/ \E w \in Workers : GetLock(w)
    \/ \E w \in Workers : GetRead(w)
    \/ \E w \in Workers : GetRemove(w)
    \/ CleanupLock
    \/ CleanupSweep
    \/ Tick(TickMinutes)

\* state.go:29, 79-92  time passes and the ticker fires; a goroutine that
\* holds the mutex runs on to its Unlock; and the Lock of the cleanup
\* goroutine is granted once the mutex is free often enough (sync.RWMutex
\* does not starve a waiting writer)
FairSweep ==
    /\ WF_vars(Tick(TickMinutes))
    /\ SF_vars(CleanupLock)
    /\ WF_vars(CleanupSweep)
    /\ \A w \in Workers : WF_vars(StoreBody(w))
    /\ \A w \in Workers : WF_vars(GetRead(w))
    /\ \A w \in Workers : WF_vars(GetRemove(w))

SpecSweep == Init /\ [][NextSweep]_vars /\ FairSweep

\* --------------------------------- launches against a registry that changes
\* part_019:14  client_id has no unique index: the administrator gives the
\* second platform the client id the first one has
SharedClient == [PlatformB EXCEPT !.ID = 0, !.ClientID = PlatformA.ClientID]

\* the launches the two platforms answer a login with
TenantLaunches ==
    {LaunchRequest(t, RandomToken(1), FALSE) :
        t \in {TokenA(RandomToken(2)), TokenB(RandomToken(2)),
               [TokenB(RandomToken(2)) EXCEPT !.aud = {SharedClient.ClientID}]}}

NextTenants ==
    \/ Upsert(SharedClient)
    \/ \E r \in {LoginBase, [LoginBase EXCEPT !.iss = PlatformB.Issuer]} :
          LoginInitiation(1, r, 2)
    \/ \E r \in TenantLaunches : LaunchStart(1, r)
    \/ HandlerSteps({1})

SpecTenants == Init /\ [][NextTenants]_vars

\* ------------------------------------ JWTValidator.getKeyfunc, stepwise
\* The launches of all goroutines share one JWTValidator (handler.go:46) and
\* its jwksCache, a plain map (jwt.go:101).  A map operation is not atomic:
\* it is modelled as the interval between two steps, during which
\* keyfunc[w].access says what goroutine w is doing to the map.
\* another goroutine is in a write of the map
WriteInProgress(w) == \E o \in Workers \ {w} : keyfunc[o].access = "write"

\* jwt.go:113-115  ValidateToken calls getKeyfunc(platform.JWKSEndpoint)
CallGetKeyfunc(w, url) ==
    /\ pc[w] = "idle"
    /\ keyfunc' = [keyfunc EXCEPT ![w] = [NoKeyfunc EXCEPT !.url = url]]
    /\ pc' = [pc EXCEPT ![w] = "kf_lookup"]
    /\ UNCHANGED <<storeVars, ret, handlerVars, sessionVars, keyVars, dbOut>>

\* jwt.go:148  the read v.jwksCache[jwksURL] begins
KeyfuncLookup(w) ==
    /\ pc[w] = "kf_lookup"
    /\ keyfunc' = [keyfunc EXCEPT ![w].access = "read"]
    /\ pc' = [pc EXCEPT ![w] = "kf_looked"]
    /\ UNCHANGED <<storeVars, ret, handlerVars, sessionVars, keyVars, dbOut>>

\* jwt.go:148-150  the read ends: a hit returns the cached keyfunc.  A read
\* that overlaps a write of another goroutine is a data race: it may see the
\* entry or miss it, or the runtime ends the process ("concurrent map read
\* and map write")
KeyfuncLooked(w, seen, fatal) ==
    /\ pc[w] = "kf_looked"
    /\ IF WriteInProgress(w) THEN TRUE
       ELSE ~fatal /\ (seen <=> keyfunc[w].url \in jwksCache)
    /\ keyfunc' = [keyfunc EXCEPT ![w].access = "none"]
    /\ pc' = IF fatal THEN [o \in Workers |-> "fatal"]
             ELSE [pc EXCEPT ![w] = IF seen THEN "kf_return" ELSE "kf_fetch"]
    /\ UNCHANGED <<storeVars, ret, handlerVars, sessionVars, keyVars, dbOut>>

\* jwt.go:152-158  keyfunc.NewDefaultCtx with a timeout of ten seconds;
\* fetched: the platform answered in time
KeyfuncFetch(w, fetched) ==
    /\ pc[w] = "kf_fetch"
    /\ keyfunc' = [keyfunc EXCEPT ![w].err = ~fetched]
    /\ pc' = [pc EXCEPT ![w] = IF fetched THEN "kf_store" ELSE "kf_return"]
    /\ UNCHANGED <<storeVars, ret, handlerVars, sessionVars, keyVars, dbOut>>

\* jwt.go:160  the write v.jwksCache[jwksURL] = kf begins
KeyfuncStore(w) ==
    /\ pc[w] = "kf_store"
    /\ keyfunc' = [keyfunc EXCEPT ![w].access = "write"]
    /\ pc' = [pc EXCEPT ![w] = "kf_stored"]
    /\ UNCHANGED <<storeVars, ret, handlerVars, sessionVars, keyVars, dbOut>>

\* jwt.go:160-161  the write ends.  A write that overlaps a write of
\* another goroutine may end the process ("concurrent map writes")
KeyfuncStored(w, fatal) ==
    /\ pc[w] = "kf_stored"
    /\ fatal => WriteInProgress(w)
    /\ jwksCache' = jwksCache \cup {keyfunc[w].url}
    /\ keyfunc' = [keyfunc EXCEPT ![w].access = "none"]
    /\ pc' = IF fatal THEN [o \in Workers |-> "fatal"]
             ELSE [pc EXCEPT ![w] = "kf_return"]
    /\ UNCHANGED <<storeVars, ret, sessionVars, keyVars, dbOut, platforms, users,
                   randCtr, req, loc, resp, minted, sessions, started>>

\* jwt.go:115-118  ValidateToken goes on with the keyfunc or the error
KeyfuncReturn(w) ==
    /\ pc[w] = "kf_return"
    /\ keyfunc' = [keyfunc EXCEPT ![w] = NoKeyfunc]
    /\ pc' = [pc EXCEPT ![w] = "idle"]
    /\ UNCHANGED <<storeVars, ret, handlerVars, sessionVars, keyVars, dbOut>>

NextCache ==
    \/ \E w \in Workers, url \in {PlatformA.JWKSEndpoint, PlatformB.JWKSEndpoint} :
          CallGetKeyfunc(w, url)
    \/ \E w \in Workers : KeyfuncLookup(w)
    \/ \E w \in Workers, seen \in BOOLEAN, fatal \in BOOLEAN : KeyfuncLooked(w, seen, fatal)
    \/ \E w \in Workers, f \in BOOLEAN : KeyfuncFetch(w, f)
    \/ \E w \in Workers : KeyfuncStore(w)
    \/ \E w \in Workers, fatal \in BOOLEAN : KeyfuncStored(w, fatal)
    \/ \E w \in Workers : KeyfuncReturn(w)

SpecCache == Init /\ [][NextCache]_vars

\* ------------------------------------------- the router and its demo login
\* useResponsive.ts:962-969  DefaultRouterConfig (the file holds router.go);
\* config.Load gives the same defaults (part_015:58-63)
DefaultRouterConfig ==
    [SessionSecret |-> HandlerSession.secret, SessionMaxAge |-> HandlerSession.maxAge,
     DemoMode |-> TRUE]

\* useResponsive.ts:847-925  DemoHandler.DemoLogin, registered under
\* POST /api/v1/demo/login when cfg.DemoMode (useResponsive.ts:995-1002);
\* name and role are what the request body asks for, dbOK is the database
\* answering
DemoLogin(w, name, role, dbOK) ==
    /\ DefaultRouterConfig.DemoMode
    /\ pc[w] = "idle"
    /\ req' = [req EXCEPT ![w] = [kind |-> "demo", name |-> name, role |-> role]]
    /\ LET n == IF name = "" THEN "Demo Explorer" ELSE name
           r == IF role = "" THEN "learner" ELSE role
           i == FindUser(users, "demo-user-001", "demo.local")
           created == CreateUser(users,
                         [sub |-> "demo-user-001", name |-> n,
                          email |-> "demo@example.com"],
                         [Issuer |-> "demo.local"])
           user == IF i = 0 THEN created[Len(created)]
                   ELSE [users[i] EXCEPT !.DisplayName = n]
           token == CreateToken(HandlerSession, user.ID, "demo-user-001",
                                "demo-course-001", r, now * 60 * TicksPerSecond)
       IN  IF ~dbOK
           THEN /\ Respond(w, 500, IF i = 0 THEN "failed to create demo user"
                                            ELSE "database error")
                /\ UNCHANGED users
           ELSE /\ users' = IF i = 0 THEN created ELSE SaveUser(users, user)
                /\ resp' = [resp EXCEPT ![w] =
                      [NoResponse EXCEPT
                          !.status = 200,
                          !.cookie = [name |-> "session", value |-> token,
                                      maxAge |-> SessionMaxAgeSeconds, path |-> "/",
                                      secure |-> FALSE, httpOnly |-> TRUE]]]
                /\ pc' = [pc EXCEPT ![w] = "done"]
    /\ UNCHANGED <<storeState, sessionVars, keyVars, sideVars, history, ret, key, arg, res,
                   platforms, jwksCache, randCtr, loc, minted, sessions, started>>

\* useResponsive.ts:1019-1022  a route under AuthMiddleware(sessionManager):
\* the client sends back the session cookie the response of w has set
RouterServe(w) ==
    /\ pc[w] = "done"
    /\ resp[w].cookie # NoCookie
    /\ LET r == ApiRequest(resp[w].cookie.value, "", NoToken)
           t == now * 60 * TicksPerSecond
           answer == AuthMiddleware(HandlerSession, r, t)
       IN  /\ api' = [served |-> TRUE, req |-> r, at |-> t, answer |-> answer]
           /\ shown' = IF answer.next THEN shown
                        ELSE shown \cup {[status |-> answer.status,
                                          body |-> answer.body]}
    /\ UNCHANGED <<storeVars, pc, ret, handlerVars, keyVars, sideVars, wall, issued, verdict>>

NextRouter ==
    \/ LoginInitiation(1, LoginBase, 2)
    \/ \E r \in PlainLaunches : LaunchStart(1, r)
    \/ HandlerSteps({1})
    \/ \E name \in {"", "Dana"}, role \in {"", "instructor"}, ok \in BOOLEAN :
          DemoLogin(1, name, role, ok)
    \/ RouterServe(1)

SpecRouter == Init /\ [][NextRouter]_vars

\* ------------------------------------------------------ claims, StateStore
\* C1: a state is single use.  A Get that finds s returns the entry the last
\* Store(s, d) wrote and leaves s absent; between two Stores of s at most one
\* Get finds it; and a stored entry that no Get has consumed is missed by a
\* Get only when the cleanup has had reason to purge it (it is past the TTL).
C1_SingleUse ==
    /\ \A k \in AllKeys : hits[k] <= 1
    /\ \A w \in Workers :
        (pc[w] = "got" /\ got[w] = gen[key[w]]) =>
            /\ res[w].ok =>
                /\ res[w].data = lastStored[key[w]]
                /\ key[w] \notin DOMAIN states
            /\ ~res[w].ok =>
                /\ res[w].data = NilData
                /\ (gen[key[w]] > 0 /\ hits[key[w]] = 0) =>
                       Expired(lastStored[key[w]], now)

\* C1 witness: after one Store, a first Get found the entry and a second Get
\* of the same state has returned not-found
C1_Witness ==
    \E w \in Workers :
        /\ pc[w] = "got" /\ ~res[w].ok
        /\ got[w] = gen[key[w]] /\ hits[key[w]] = 1
        /\ ~Expired(lastStored[key[w]], now)

\* C2: of the Gets that race for one stored entry at most one returns found:
\* two goroutines that both hold a found result for the same state obtained
\* entries of different Stores.
C2_AtMostOneWinner ==
    \A w1, w2 \in Workers :
        (/\ w1 # w2
         /\ pc[w1] = "got" /\ pc[w2] = "got"
         /\ key[w1] = key[w2]
         /\ res[w1].ok /\ res[w2].ok) => got[w1] # got[w2]

\* C2 witness: two goroutines have both run Get on the same stored entry, one
\* found it and the other did not
C2_Witness ==
    \E w1, w2 \in Workers :
        /\ w1 # w2
        /\ pc[w1] = "got" /\ pc[w2] = "got"
        /\ key[w1] = key[w2] /\ got[w1] = got[w2]
        /\ res[w1].ok /\ ~res[w2].ok

\* C3: Get never returns an entry whose age exceeds the TTL at the moment Get
\* reads the map, whether or not the cleanup has run since.
C3_ExpiredNeverReturned ==
    [][\A w \in Workers :
          (pc[w] = "get_read" /\ pc'[w] = "get_delete" /\ res'[w].ok)
              => ~Expired(res'[w].data, now)]_vars

\* --------------------------------------------------------- claims, handlers
IsLaunch(w) == req[w].kind = "launch"
IsLogin(w) == req[w].kind = "login"

\* what the launch of goroutine w has behind it
StateConsumed(w) == res[w].ok /\ key[w] = req[w].state /\ hits[key[w]] >= 1
PlatformResolved(w) ==
    /\ loc[w].platform # NilPlatform
    /\ loc[w].platform.ClientID = res[w].data.ClientID
FiveChecks(w) ==
    LET tok == req[w].id_token
        platform == loc[w].platform
    IN  /\ tok.signedBy \in PublishedKeys(platform.JWKSEndpoint)
        /\ tok.iss = platform.Issuer
        /\ platform.ClientID \in tok.aud
        /\ tok.nonce = res[w].data.Nonce
        /\ tok.messageType \in {"LtiResourceLinkRequest", "LtiDeepLinkingRequest"}
TokenValid(w) == FiveChecks(w) /\ req[w].id_token.timeValid
UserResolved(w) ==
    /\ loc[w].user # NilUser
    /\ loc[w].user.CanvasUserID = req[w].id_token.sub
    /\ loc[w].user.CanvasInstanceURL = loc[w].platform.Issuer
    /\ \E i \in 1..Len(users) : users[i].ID = loc[w].user.ID
PastValidation(w) ==
    \/ pc[w] \in {"launch_find_user", "launch_save_user"}
    \/ pc[w] = "done" /\ resp[w].status \in {302, 500}
Rejected401(w) == pc[w] = "done" /\ resp[w].status = 401

\* C4: a Launch sets the session cookie only after it has consumed the state,
\* resolved the platform, validated the id_token and found or created the
\* user, each stage resting on the ones before; a Launch answered 4xx or 5xx
\* has set no cookie.
C4_SessionLast ==
    \A w \in Workers : IsLaunch(w) =>
        /\ pc[w] = "launch_validate" => StateConsumed(w) /\ PlatformResolved(w)
        /\ PastValidation(w) =>
              StateConsumed(w) /\ PlatformResolved(w) /\ TokenValid(w)
        /\ resp[w].cookie # NoCookie =>
              /\ resp[w].status = 302
              /\ StateConsumed(w) /\ PlatformResolved(w) /\ TokenValid(w)
              /\ UserResolved(w)
              /\ DecodeClaims(resp[w].cookie.value.payload).UserID = loc[w].user.ID
        /\ resp[w].status >= 400 => resp[w].cookie = NoCookie

\* C4 witness: a Launch has set the session cookie
C4_Witness ==
    \E w \in Workers :
        IsLaunch(w) /\ pc[w] = "done" /\ resp[w].cookie # NoCookie

\* C5: a Launch whose state was never stored or was already consumed is
\* answered 400 "invalid or expired state" and reaches neither the user nor
\* the session; every state pays for at most one session.
C5_ReplayRejected ==
    /\ \A k \in AllKeys : minted[k] <= 1
    /\ \A w \in Workers :
        (IsLaunch(w) /\ pc[w] \in {"launch_got", "done"} /\ ret[w] = "launch_got"
            /\ ~res[w].ok) =>
            /\ loc[w].user = NilUser
            /\ resp[w].cookie = NoCookie
            /\ pc[w] = "done" =>
                  /\ resp[w].status = 400
                  /\ resp[w].error = "invalid or expired state"

\* C5 witness: a state has paid for a session and a second Launch with the
\* same state has been answered 400
C5_Witness ==
    \E w \in Workers :
        /\ IsLaunch(w) /\ pc[w] = "done" /\ ~res[w].ok
        /\ resp[w].status = 400
        /\ minted[req[w].state] = 1

\* C6: a Launch whose id_token carries a nonce other than the one stored under
\* its state never passes validation: it sets no cookie, and once the platform
\* is resolved its answer is 401.
C6_NonceBinds ==
    \A w \in Workers :
        (IsLaunch(w) /\ res[w].ok /\ req[w].id_token.nonce # res[w].data.Nonce) =>
            /\ ~PastValidation(w)
            /\ resp[w].cookie = NoCookie
            /\ (pc[w] = "done" /\ PlatformResolved(w)) => resp[w].status = 401

\* C6 witness: state B came with an id_token that is valid in everything but
\* carries the nonce of login A, and the answer was 401 nonce mismatch
C6_Witness ==
    \E w \in Workers :
        /\ IsLaunch(w) /\ pc[w] = "done" /\ res[w].ok
        /\ req[w].state = RandomToken(3)
        /\ req[w].id_token.nonce = RandomToken(2)
        /\ gen[RandomToken(1)] = 1
        /\ resp[w].status = 401
        /\ resp[w].error = "token validation failed: nonce mismatch"

\* C7 as claimed: a Launch that reaches validation passes it if and only if
\* signature, issuer, audience, nonce and message type are right.
C7_FiveChecksDecide ==
    \A w \in Workers :
        (IsLaunch(w) /\ (PastValidation(w) \/ Rejected401(w))) =>
            (PastValidation(w) <=> FiveChecks(w))

\* C7 amended: a Launch that reaches validation and obtains the platform's key
\* set passes it if and only if signature, issuer, audience, nonce and message
\* type are right and the token's exp/nbf admit it now; without the key set,
\* or with any check failing, the answer is 401 and nothing is passed.
C7_ChecksAndTimeDecide ==
    \A w \in Workers :
        (IsLaunch(w) /\ (PastValidation(w) \/ Rejected401(w))) =>
            IF Rejected401(w)
                  /\ resp[w].error = "token validation failed: failed to get JWKS"
            THEN loc[w].platform.JWKSEndpoint \notin jwksCache
            ELSE PastValidation(w) <=> (FiveChecks(w) /\ req[w].id_token.timeValid)

\* C7 witness: a deep-linking token with a second audience passed, and the
\* Launch went on to set its cookie
C7_Witness ==
    \E w \in Workers :
        /\ IsLaunch(w) /\ pc[w] = "done" /\ resp[w].status = 302
        /\ req[w].id_token.messageType = "LtiDeepLinkingRequest"

\* C8: every step a Launch takes up to and including token validation leaves
\* the users table as it was, so a Launch that fails there has created and
\* modified no user.
C8_FailedLaunchKeepsUsers ==
    [][\A w \in Workers :
          (/\ pc'[w] # pc[w]
           /\ req'[w].kind = "launch"
           /\ pc[w] \in {"idle", "get_lock", "get_read", "get_delete",
                         "launch_got", "launch_validate"})
              => users' = users]_vars

\* C8 witness: a Launch of a subject that has no user yet failed validation
C8_Witness ==
    \E w \in Workers :
        /\ IsLaunch(w) /\ Rejected401(w)
        /\ FindUser(users, req[w].id_token.sub, loc[w].platform.Issuer) = 0
        /\ Len(users) > 0

\* C9: a login answered 302 redirects to the authorization endpoint of the
\* platform registered for iss, with every OIDC parameter, and the State Store
\* holds under the redirect's state the redirect's nonce, the platform's
\* client id and the request's target link (until the entry is consumed or
\* outlives the TTL).
C9_RedirectAndEntry ==
    \A w \in Workers :
        (IsLogin(w) /\ pc[w] = "done" /\ resp[w].status = 302) =>
            LET q == resp[w].location.query
                platform == loc[w].platform
            IN  /\ platform.Issuer = req[w].iss
                /\ resp[w].location.base = UrlParse(platform.AuthEndpoint).base
                /\ {"scope", "response_type", "response_mode", "prompt", "client_id",
                    "login_hint", "redirect_uri", "state", "nonce"} \subseteq DOMAIN q
                /\ q["scope"] = "openid"
                /\ q["response_type"] = "id_token"
                /\ q["response_mode"] = "form_post"
                /\ q["prompt"] = "none"
                /\ q["client_id"] = platform.ClientID
                /\ q["login_hint"] = req[w].login_hint
                /\ q["redirect_uri"] # "" /\ q["state"] # "" /\ q["nonce"] # ""
                /\ "lti_message_hint" \in DOMAIN q <=> req[w].lti_message_hint # ""
                /\ req[w].lti_message_hint # "" =>
                      q["lti_message_hint"] = req[w].lti_message_hint
                /\ \/ /\ q["state"] \in DOMAIN states
                      /\ states[q["state"]].Nonce = q["nonce"]
                      /\ states[q["state"]].ClientID = platform.ClientID
                      /\ states[q["state"]].TargetLinkURI = req[w].target_link_uri
                   \/ /\ q["state"] \notin DOMAIN states
                      /\ \/ hits[q["state"]] = 1
                         \/ Expired(lastStored[q["state"]], now)

\* C9 witness: a login with lti_message_hint was answered 302 and its entry is
\* in the store
C9_Witness ==
    \E w \in Workers :
        /\ IsLogin(w) /\ pc[w] = "done" /\ resp[w].status = 302
        /\ req[w].lti_message_hint # ""
        /\ resp[w].location.query["state"] \in DOMAIN states

\* C10: a login that lacks a required parameter is answered 400 with the error
\* of the first one missing in the order iss, login_hint, target_link_uri,
\* whatever the registry says about iss.
C10_ParameterOrder ==
    \A w \in Workers :
        (IsLogin(w) /\ pc[w] = "done") =>
            LET r == req[w]
                Is400(msg) == resp[w].status = 400 /\ resp[w].error = msg
            IN  /\ r.iss = "" => Is400("missing iss parameter")
                /\ (r.iss # "" /\ r.login_hint = "") =>
                      Is400("missing login_hint parameter")
                /\ (r.iss # "" /\ r.login_hint # "" /\ r.target_link_uri = "") =>
                      Is400("missing target_link_uri parameter")

\* C10 witness: iss and login_hint were both missing and the error names iss
C10_Witness ==
    \E w \in Workers :
        /\ IsLogin(w) /\ pc[w] = "done"
        /\ req[w].iss = "" /\ req[w].login_hint = ""
        /\ resp[w].error = "missing iss parameter"

\* C11: a login or a Launch that lacks a required parameter is answered 400 by
\* the step that receives it, and that step leaves the State Store as it was:
\* no entry is written, none is consumed, and the request never reaches Store
\* or Get.
MissingRequired(r) ==
    IF r.kind = "login"
    THEN r.iss = "" \/ r.login_hint = "" \/ r.target_link_uri = ""
    ELSE r.kind = "launch" /\ (r.id_token.empty \/ r.state = "")

C11_MalformedLeavesStore ==
    [][\A w \in Workers :
          (pc[w] = "idle" /\ pc'[w] # "idle" /\ MissingRequired(req'[w])) =>
              /\ pc'[w] = "done"
              /\ resp'[w].status = 400
              /\ resp'[w].cookie = NoCookie
              /\ states' = states
              /\ gen' = gen /\ hits' = hits]_vars

\* C11 witness: a Launch without id_token named a state that is in the store,
\* was answered 400, and the state is still there
C11_Witness ==
    \E w \in Workers :
        /\ IsLaunch(w) /\ pc[w] = "done" /\ resp[w].status = 400
        /\ req[w].id_token.empty
        /\ req[w].state \in DOMAIN states

\* C12: a login with every required parameter goes on to Store only if iss is
\* the issuer of a registered platform and client_id is omitted or is that
\* platform's client id, and then stores that platform's client id; otherwise
\* it is answered 400 "unknown platform issuer", respectively 400 "client_id
\* mismatch", and nothing is stored.
IssuerRegistered(iss) ==
    \E i \in 1..Len(platforms) : ~platforms[i].Deleted /\ platforms[i].Issuer = iss
ClientOf(iss) ==
    LET i == CHOOSE j \in 1..Len(platforms) :
                 ~platforms[j].Deleted /\ platforms[j].Issuer = iss
    IN  platforms[i].ClientID

C12_LoginNeedsPlatform ==
    [][\A w \in Workers :
          (/\ pc[w] = "idle" /\ pc'[w] # "idle"
           /\ req'[w].kind = "login" /\ ~MissingRequired(req'[w])) =>
              LET r == req'[w]
                  Is400(msg) ==
                      /\ pc'[w] = "done"
                      /\ resp'[w].status = 400 /\ resp'[w].error = msg
                      /\ states' = states /\ gen' = gen
              IN  IF ~IssuerRegistered(r.iss) THEN Is400("unknown platform issuer")
                  ELSE IF r.client_id # "" /\ r.client_id # ClientOf(r.iss)
                       THEN Is400("client_id mismatch")
                  ELSE \/ /\ pc'[w] = "store_lock"
                          /\ arg'[w].ClientID = ClientOf(r.iss)
                          /\ arg'[w].TargetLinkURI = r.target_link_uri
                       \/ pc'[w] = "done" /\ resp'[w].status = 500]_vars

\* C12 witness: a login named the issuer of a platform that is no longer
\* registered and was answered 400, with nothing stored
C12_Witness ==
    \E w \in Workers :
        /\ IsLogin(w) /\ pc[w] = "done"
        /\ req[w].iss = PlatformA.Issuer
        /\ resp[w].status = 400 /\ resp[w].error = "unknown platform issuer"
        /\ \A k \in AllKeys : gen[k] = 0

\* ----------------------------------------------------- claims, sessions
\* the instant the token issued as number i expires, in ticks: its creation
\* time plus its manager's max age, as the whole second NumericDate keeps
ExpiryOf(i) ==
    ((issued[i].at + issued[i].by.maxAge * TicksPerSecond) \div TicksPerSecond)
        * TicksPerSecond
ClaimsOf(in) == [UserID |-> in[1], CanvasID |-> in[2], CourseID |-> in[3], Role |-> in[4]]

\* C13: ValidateToken of a token CreateToken(u, e, c, r) returned, called
\* before the token expires on a manager with the same secret, returns no
\* error and exactly (u, e, c, r), empty c and r included; called on a manager
\* with another secret it returns an error and no claims.
C13_RoundTrip ==
    verdict.called =>
        \A i \in 1..Len(issued) :
            verdict.token = issued[i].token =>
                /\ (verdict.by.secret = issued[i].by.secret
                        /\ verdict.at < ExpiryOf(i)) =>
                       /\ verdict.result.err = ""
                       /\ verdict.result.claims = ClaimsOf(issued[i].in)
                /\ verdict.by.secret # issued[i].by.secret =>
                       /\ verdict.result.err # ""
                       /\ verdict.result.claims = NilClaims

\* C13 witness: a token with empty course and role came back from
\* ValidateToken with its four values
C13_Witness ==
    /\ verdict.called /\ verdict.result.err = ""
    /\ \E i \in 1..Len(issued) :
          /\ verdict.token = issued[i].token
          /\ issued[i].in[3] = "" /\ issued[i].in[4] = ""
          /\ verdict.result.claims = ClaimsOf(issued[i].in)

\* C14 as claimed: a token created at t with max age m is accepted at every
\* time before t+m and rejected at every time after t+m.
C14_ExpiryAtCreationPlusMaxAge ==
    verdict.called =>
        \A i \in 1..Len(issued) :
            (verdict.token = issued[i].token
                /\ verdict.by.secret = issued[i].by.secret) =>
                LET end == issued[i].at + issued[i].by.maxAge * TicksPerSecond
                IN  /\ verdict.at < end => verdict.result.err = ""
                    /\ verdict.at > end => verdict.result.err # ""

\* C14 amended: the token expires at t+m truncated to the whole second: it is
\* accepted at every time before that instant and rejected at every time at
\* or after it, and a token once rejected as expired is not accepted by the
\* next call either.
C14_ExpiryAtTimestamp ==
    [][verdict'.called =>
          \A i \in 1..Len(issued') :
              (verdict'.token = issued'[i].token
                  /\ verdict'.by.secret = issued'[i].by.secret) =>
                  /\ verdict'.result.err = "" <=> verdict'.at < ExpiryOf(i)'
                  /\ verdict'.at >= ExpiryOf(i)' =>
                        verdict'.result.err = "token is expired"
                  /\ (/\ verdict.called /\ verdict.token = verdict'.token
                      /\ verdict.by.secret = verdict'.by.secret
                      /\ verdict.result.err = "token is expired") =>
                        verdict'.result.err = "token is expired"]_vars

\* C14 witness: a token was rejected as expired at a time before t+m
C14_Witness ==
    /\ verdict.called /\ verdict.result.err = "token is expired"
    /\ \E i \in 1..Len(issued) :
          /\ verdict.token = issued[i].token
          /\ verdict.at = ExpiryOf(i)
          /\ verdict.at < issued[i].at + issued[i].by.maxAge * TicksPerSecond

\* C15: ValidateToken rejects every token whose header declares an algorithm
\* other than HS256, whatever key signed it.
C15_OnlyHS256 ==
    (verdict.called /\ verdict.token.segments = 3
        /\ verdict.token.header.alg # "HS256") => verdict.result.err # ""

\* ----------------------------------------------------- claims, middleware
\* C16: under AuthMiddleware the next handler runs if and only if extractToken
\* yields a token and ValidateToken accepts it; otherwise the answer is 401
\* and the context stays empty.  When the handler runs, user_id, canvas_id,
\* course_id and role in the context are the token's claims, which for a
\* token CreateToken made are the values it was made from.
C16_HandlerIffValid ==
    api.served =>
        LET tok == extractToken(api.req)
            v == SessionValidateToken(AuthSession, tok, api.at)
            a == api.answer
        IN  /\ a.next <=> (tok # NoToken /\ v.err = "")
            /\ ~a.next => a.status = 401 /\ a.ctx = NoContext
            /\ a.next =>
                  /\ a.ctx.user_id = Field(tok.payload, "user_id", 0)
                  /\ a.ctx.canvas_id = Field(tok.payload, "canvas_id", "")
                  /\ a.ctx.course_id = Field(tok.payload, "course_id", "")
                  /\ a.ctx.role = Field(tok.payload, "role", "")
                  /\ \A i \in 1..Len(issued) :
                        tok = issued[i].token =>
                            /\ a.ctx.user_id = issued[i].in[1]
                            /\ a.ctx.canvas_id = issued[i].in[2]
                            /\ a.ctx.course_id = issued[i].in[3]
                            /\ a.ctx.role = issued[i].in[4]

\* C16 witness: a request whose cookie is no token was aborted while its
\* Authorization header carried a token the manager had issued
C16_Witness ==
    /\ api.served /\ ~api.answer.next /\ api.answer.status = 401
    /\ api.req.cookie = InvalidToken
    /\ \E i \in 1..Len(issued) :
          /\ api.req.credentials = issued[i].token
          /\ issued[i].by.secret = AuthSession.secret
          /\ api.at < ExpiryOf(i)

\* C17: every request AuthMiddleware aborts gets the same answer, whatever
\* made it abort.
C17_UniformRejection == \A a, b \in shown : a = b

\* -------------------------------------------------------- claims, users
RowsOf(sub, iss) ==
    {j \in 1..Len(users) :
        users[j].CanvasUserID = sub /\ users[j].CanvasInstanceURL = iss}

\* C18: launches served one after the other that carry the same subject and
\* platform issuer are given the same local user id, and after each of them
\* the users table holds exactly one row with that pair, the row of that id.
C18_FindOrCreateIdempotent ==
    /\ \A i, j \in 1..Len(sessions) :
          (sessions[i].sub = sessions[j].sub /\ sessions[i].iss = sessions[j].iss)
              => sessions[i].userID = sessions[j].userID
    /\ \A i \in 1..Len(sessions) :
          /\ Cardinality(RowsOf(sessions[i].sub, sessions[i].iss)) = 1
          /\ \A j \in RowsOf(sessions[i].sub, sessions[i].iss) :
                users[j].ID = sessions[i].userID

\* C18 witness: two sessions were set for subject u2, whose user the first of
\* the two launches created
C18_Witness ==
    /\ Len(sessions) = 2
    /\ sessions[1].sub = "u2" /\ sessions[2].sub = "u2"
    /\ sessions[1].iss = sessions[2].iss
    /\ Len(users) = 2

\* C19: the users table never holds two rows with the same external user id
\* and platform issuer, however concurrent launches interleave.
C19_OneUserPerIdentity ==
    \A i, j \in 1..Len(users) :
        (users[i].CanvasUserID = users[j].CanvasUserID
            /\ users[i].CanvasInstanceURL = users[j].CanvasInstanceURL) => i = j

\* --------------------------------------------------------- claims, keys
\* C20: all calls of GetKeyID and GetJWKS on the process's KeyManager, from
\* whatever goroutines, return one and the same key id and one and the same
\* JWKS document, which is the key the manager was constructed with: the
\* published key neither changes nor disappears.
C20_KeyStable ==
    /\ Cardinality(published.kids) <= 1
    /\ Cardinality(published.docs) <= 1
    /\ \A kid \in published.kids : kid = km.keyID
    /\ \A doc \in published.docs :
          /\ Len(doc.Keys) = 0 <=> km.privateKey = NilKey
          /\ \A i \in 1..Len(doc.Keys) :
                /\ doc.Keys[i].kid = km.keyID
                /\ doc.Keys[i].n = Base64Url(km.privateKey.N)
                /\ doc.Keys[i].e = Base64Url(km.privateKey.E)
    /\ \A w \in Workers :
          /\ (pc[w] = "key_returned" /\ kmOut[w] # NoOutput /\ "keyID" \in DOMAIN kmOut[w])
                => kmOut[w].keyID \in published.kids
          /\ (pc[w] = "key_returned" /\ kmOut[w] # NoOutput /\ "jwks" \in DOMAIN kmOut[w])
                => kmOut[w].jwks \in published.docs

\* C20 witness: two goroutines hold results at once, one of GetKeyID and one
\* of GetJWKS with a key in it, after earlier calls had returned too
C20_Witness ==
    \E w1, w2 \in Workers :
        /\ pc[w1] = "key_returned" /\ pc[w2] = "key_returned"
        /\ "keyID" \in DOMAIN kmOut[w1]
        /\ "jwks" \in DOMAIN kmOut[w2]
        /\ Len(kmOut[w2].jwks.Keys) = 1
        /\ kmOut[w2].jwks.Keys[1].kid = kmOut[w1].keyID

\* ------------------------------------------------------ claims, registry
\* the platform registered under an issuer, as FindByIssuer sees it
Registered(tbl, issuer) == ~FindByIssuer(tbl, issuer).err

\* C21: the registry holds at most one platform per issuer.  After every
\* PlatformRepository call (dbOut' is the call the step made): no two registered platforms share an issuer; a
\* Create of a registered issuer fails and leaves the table alone; an Upsert of
\* a registered issuer succeeds, adds no row, and leaves under that issuer the
\* data given with the ID the platform had; and an Upsert that repeats the
\* successful Upsert before it changes nothing.
C21_OnePlatformPerIssuer ==
    [][dbOut'.op # "none" =>
        LET p == dbOut'.arg
            was == FindByIssuer(platforms, p.Issuer).platform
            is == FindByIssuer(platforms', p.Issuer).platform
        IN  /\ \A r1, r2 \in {platforms'[i] : i \in {j \in 1..Len(platforms') :
                                                       ~platforms'[j].Deleted}} :
                  r1.Issuer = r2.Issuer => r1 = r2
            /\ dbOut'.op = "Create" /\ Registered(platforms, p.Issuer)
                  => dbOut'.err /\ platforms' = platforms
            /\ dbOut'.op = "Upsert" /\ Registered(platforms, p.Issuer)
                  => /\ ~dbOut'.err
                     /\ Len(platforms') = Len(platforms)
                     /\ is = [p EXCEPT !.ID = was.ID]
            /\ dbOut'.op = "Upsert" /\ dbOut.op = "Upsert" /\ dbOut.arg = p
                  /\ ~dbOut.err
                  => ~dbOut'.err /\ platforms' = platforms]_vars

\* an Upsert has given the first platform another client id and kept its ID,
\* and a Create of a registered issuer has failed before or after
C21_Witness ==
    /\ dbOut.op = "Upsert" /\ ~dbOut.err
    /\ dbOut.arg.Issuer = PlatformA.Issuer
    /\ Len(platforms) = 2
    /\ platforms[1].ID = PlatformA.ID
    /\ platforms[1].ClientID = "client-456"
    /\ platforms[1].JWKSEndpoint # PlatformA.JWKSEndpoint

\* C30: Upsert always succeeds and registers its argument.  After every call
\* of Upsert(p), whatever calls of Create, Update, Upsert and Delete came
\* before it, the call returned no error and FindByIssuer(p.Issuer) returns
\* the data of p.
C30_UpsertRegisters ==
    dbOut.op = "Upsert" =>
        /\ ~dbOut.err
        /\ Registered(platforms, dbOut.arg.Issuer)
        /\ [FindByIssuer(platforms, dbOut.arg.Issuer).platform EXCEPT !.ID = 0]
              = dbOut.arg

\* ------------------------------------------------------ claims, cleanup
\* the last instant the model's clock reaches, and the instants of Store
\* that it carries past their TTL
LastTime == (MaxTime \div TickMinutes) * TickMinutes
SweepableTimes == {t \in 0..MaxTime : t + TTLMinutes < LastTime}

\* C22: an abandoned entry does not stay for ever.  While the ticker keeps
\* firing, every entry a Store has written is eventually out of the store:
\* consumed by a Get or, when no Get comes for it, deleted by the sweep once
\* it is older than ten minutes.  (Stated of the entries the model's clock
\* can carry past their TTL.)
C22_AbandonedEntrySwept ==
    \A k \in TestKeys, t \in SweepableTimes :
        (k \in DOMAIN states /\ states[k].CreatedAt = t)
            ~> ~(k \in DOMAIN states /\ states[k].CreatedAt = t)

\* the sweep has deleted an entry that was stored once and never found by a Get
C22_Witness ==
    \E k \in TestKeys :
        /\ gen[k] = 1 /\ hits[k] = 0
        /\ k \notin DOMAIN states
        /\ now - lastStored[k].CreatedAt > TTLMinutes
        /\ sweepPc = "wait"

\* ------------------------------------------------------ claims, Peek
\* C23: Peek is a read.  No step of a Peek changes the map, and the Peek
\* returns what the map holds under its state: the entry when there is one,
\* (nil, false) otherwise.  A Get after any number of Peeks therefore finds
\* what it would have found without them.
C23_PeekLeavesStore ==
    [][\A w \in Workers :
          pc[w] \in {"peek_lock", "peek_read"} /\ pc'[w] # pc[w]
             => /\ states' = states
                /\ pc[w] = "peek_read" =>
                      /\ pc'[w] = "peeked"
                      /\ res'[w] = MapLookup(states, key[w])]_vars

\* a Peek has returned the entry and a Get after it has returned it too
C23_Witness ==
    \E w1, w2 \in Workers :
        /\ pc[w1] = "peeked" /\ res[w1].ok
        /\ pc[w2] = "got" /\ res[w2].ok
        /\ key[w1] = key[w2] /\ res[w1].data = res[w2].data
        /\ gen[key[w1]] = 1 /\ hits[key[w1]] = 1

\* ------------------------------------------------------ claims, role
\* the two role URIs that make an instructor
InstructorURIs ==
    {"http://purl.imsglobal.org/vocab/lis/v2/membership#Instructor",
     "http://purl.imsglobal.org/vocab/lis/v2/institution/person#Instructor"}

\* the session a goroutine has set, and the roles of the id_token it served
HasSession(w) == IsLaunch(w) /\ resp[w].cookie # NoCookie
RoleOf(w) == DecodeClaims(resp[w].cookie.value.payload).Role
RolesOf(w) == {req[w].id_token.roles[i] : i \in 1..Len(req[w].id_token.roles)}

\* C24: the role of a session.  The session cookie a Launch sets says
\* "instructor" exactly when the roles of the validated id_token include one
\* of the two instructor URIs, whatever else they include, and "learner" in
\* every other case.
C24_RoleFromClaims ==
    \A w \in Workers :
        HasSession(w) =>
            /\ RoleOf(w) \in {"instructor", "learner"}
            /\ RoleOf(w) = "instructor" <=> RolesOf(w) \cap InstructorURIs # {}

\* a session says instructor on the strength of the institution role alone
C24_Witness ==
    \E w \in Workers :
        /\ HasSession(w)
        /\ RoleOf(w) = "instructor"
        /\ RolesOf(w) =
             {"http://purl.imsglobal.org/vocab/lis/v2/institution/person#Instructor"}

\* ------------------------------------------------------ claims, failed launches
\* the Get of a Launch has returned
PastGet(w) ==
    /\ IsLaunch(w) /\ ret[w] = "launch_got"
    /\ pc[w] \in {"launch_got", "launch_validate", "launch_find_user",
                  "launch_save_user", "done"}

\* C27: a Launch spends its state whatever becomes of it.  Once the Get of a
\* Launch has found the state, the state is out of the store at every later
\* point of that Launch, failed or not; no state is found by two Gets; and a
\* Launch whose Get finds nothing (a retry among them) is answered 400
\* "invalid or expired state" without a session.
C27_FailedLaunchSpendsState ==
    /\ \A k \in AllKeys : hits[k] <= 1
    /\ \A w \in Workers :
          PastGet(w) =>
             /\ res[w].ok => req[w].state \notin DOMAIN states
             /\ (~res[w].ok /\ pc[w] = "done") =>
                   /\ resp[w].status = 400
                   /\ resp[w].error = "invalid or expired state"
                   /\ resp[w].cookie = NoCookie

\* a Launch failed after it had consumed its state, and the retry with the
\* same state, within the ten minutes, has been answered 400
C27_Witness ==
    \E w \in Workers :
        /\ PastGet(w) /\ pc[w] = "done" /\ ~res[w].ok
        /\ resp[w].status = 400
        /\ hits[req[w].state] = 1 /\ minted[req[w].state] = 0
        /\ now - lastStored[req[w].state].CreatedAt <= TTLMinutes

\* ------------------------------------------------------ claims, platform of a flow
\* C28: both legs of a flow use one platform.  When the registry is what it
\* was at login initiation, the platform a Launch has resolved from the
\* client id stored under its state is the platform login initiation
\* resolved by issuer for that state, also when two registered platforms
\* have the same client id.
C28_SamePlatformBothLegs ==
    \A w \in Workers :
        (/\ IsLaunch(w) /\ res[w].ok
         /\ loc[w].platform # NilPlatform
         /\ started[req[w].state] # NoFlow
         /\ started[req[w].state].registry = platforms)
            => loc[w].platform = started[req[w].state].platform

\* ------------------------------------------------------ claims, token extraction
\* the answer AuthMiddleware gives when tok is the token it validates
DecidedBy(tok) ==
    LET v == SessionValidateToken(AuthSession, tok, api.at)
    IN  /\ api.answer.next <=> (tok # NoToken /\ v.err = "")
        /\ api.answer.next => api.answer.ctx.session_claims = v.claims

\* C25: the session cookie comes first.  A request with a non-empty session
\* cookie is decided by the cookie alone, whatever its Authorization header
\* holds; the bearer token of the header decides only when there is no cookie.
C25_CookiePriority ==
    api.served =>
        /\ api.req.cookie # NoToken => DecidedBy(api.req.cookie)
        /\ (api.req.cookie = NoToken /\ api.req.scheme \in {"Bearer", "bearer"})
              => DecidedBy(api.req.credentials)
        /\ (api.req.cookie = NoToken /\ api.req.scheme = "") => ~api.answer.next

\* a request with a valid cookie of one user and a valid bearer token of
\* another has been served as the user of the cookie
C25_Witness ==
    /\ api.served /\ api.answer.next
    /\ SessionValidateToken(AuthSession, api.req.cookie, api.at).err = ""
    /\ api.req.scheme = "Bearer"
    /\ SessionValidateToken(AuthSession, api.req.credentials, api.at).err = ""
    /\ DecodeClaims(api.req.credentials.payload).UserID = 200
    /\ api.answer.ctx.user_id = DecodeClaims(api.req.cookie.payload).UserID
    /\ api.answer.ctx.user_id # 200

\* ------------------------------------------------------ claims, JWKS cache
\* C26: the JWKS cache is accessed under mutual exclusion.  At no point is
\* one goroutine in a write of the jwksCache map while another goroutine is
\* in a read or a write of it.
C26_CacheExclusive ==
    \A w1, w2 \in Workers :
        (w1 # w2 /\ keyfunc[w1].access = "write") => keyfunc[w2].access = "none"

\* ------------------------------------------------------ claims, router
\* C29: only a Launch opens a session.  Every session token the
\* AuthMiddleware of the router accepts names a user and a subject for which
\* a Launch has set a session (after it consumed a state, resolved the
\* platform and validated the id_token); no other route hands out a token
\* the middleware accepts.
C29_SessionsComeFromLaunch ==
    (api.served /\ api.answer.next) =>
        \E i \in 1..Len(sessions) :
            /\ sessions[i].userID = api.answer.ctx.user_id
            /\ sessions[i].sub = api.answer.ctx.canvas_id

====
